---- MODULE Spec2Model ----
(***************************************************************************)
(* Verification model of the embedded USB host stack:                      *)
(*   - AddressPool            (src/src/address.rs)                         *)
(*   - Pipe transfer engine   (src/src/atsamd/pipe.rs)                     *)
(*   - HostController FSM     (src/src/atsamd/host.rs)                     *)
(*   - UsbStack / Device      (src/src/stack.rs, src/src/device.rs)        *)
(*   - DescriptorParser       (src/src/parser.rs, src/src/class/audio.rs)  *)
(*   - BootKeyboard slots     (src/src/driver/keyboard.rs)                 *)
(*   - PipeTable::pipe_for    (src/src/atsamd/pipe.rs, pipe/ctrl_pipe.rs)  *)
(*   - RequestType            (src/src/control.rs)                         *)
(*   - UsbMidiDriver          (src/src/driver/midi.rs)                     *)
(* The specifications SpecPool, SpecPipe, SpecRetry, SpecStack,            *)
(* SpecParser, SpecKbd, SpecPipeFor, SpecRequestType and SpecMidi share    *)
(* the module.                                                             *)
(***************************************************************************)
EXTENDS Integers, Sequences, FiniteSets, TLC

VARIABLES
    \* ---- AddressPool (address.rs) ----
    pool_bits,      \* u128 bitmap, as the set of bit positions that are 1
    held,           \* history: addresses returned by take_next and not put back since
    pool_last,      \* history: the last pool call and what it returned
    \* ---- Pipe engine (atsamd/pipe.rs) ----
    ep,             \* the endpoint of the call: toggles, transfer type, max packet size
    regs,           \* PipeRegs: cfg.ptoken and the status bits dtgl, pfreeze, bk0rdy
    desc,           \* PipeDesc bank0: pcksize.byte_count and addr (as a buffer offset)
    call,           \* the running transfer call and its position
    pnow,           \* the clock read by after_millis(0)
    pres,           \* what the last finished call returned
    phist,          \* history: tokens dispatched, packets received, last transaction
    \* ---- HostController (atsamd/host.rs), UsbStack (stack.rs), Device (device.rs) ----
    hstate,         \* HostController::state, WaitSOF with its deadline
    intflag,        \* the interrupt flags pending in the USB host INTFLAG register
    millis,         \* the millisecond clock of the host (after_millis(0))
    devices,        \* UsbStack::devices: each a Device with its Option<DriverIdx>
    ndrivers,       \* length of UsbStack::drivers
    started,        \* update() has run at least once (drivers are added before)
    panicked,       \* the stack has panicked
    slog,           \* history: what update() saw and did, if it was the last step
    reset_at,       \* history: <<t>> if the bus reset in force completed at t, else <<>>
    \* ---- DescriptorParser (parser.rs) ----
    parser,         \* DescriptorParser: buf, pos, class, subclass
    plog,           \* history: how buf was built, what next() yielded, how it ended
    \* ---- BootKeyboard (driver/keyboard.rs) ----
    kbd,            \* BootKeyboard::devices: a Vec of Option<Device>, by address
    klog,           \* history: the last register/unregister call and its result
    \* ---- PipeTable::pipe_for (atsamd/pipe.rs), RequestType (control.rs) ----
    pfor,           \* the endpoint handed to pipe_for and the descriptor fields it wrote
    rtype,          \* a RequestType value and the setter last applied to it
    \* ---- UsbMidiDriver (driver/midi.rs) ----
    midi,           \* device_endpoints, ep_jack_port, next_port_id
    mlog            \* history: handles acquired and released at the MIDI registry

poolVars == <<pool_bits, held, pool_last>>
pipeVars == <<ep, regs, desc, call, pnow, pres, phist>>

stackVars == <<hstate, intflag, millis, devices, ndrivers, started, panicked, slog, reset_at>>

parserVars == <<parser, plog>>
kbdVars == <<kbd, klog>>

pureVars == <<pfor, rtype>>
midiVars == <<midi, mlog>>

vars == <<poolVars, pipeVars, stackVars, parserVars, kbdVars, pureVars, midiVars>>

\* what the actions of one component leave alone
notPool == <<pipeVars, stackVars, parserVars, kbdVars, pureVars, midiVars>>
notPipe == <<poolVars, stackVars, parserVars, kbdVars, pureVars, midiVars>>
notStack == <<poolVars, pipeVars, parserVars, kbdVars, pureVars, midiVars>>
notParser == <<poolVars, pipeVars, stackVars, kbdVars, pureVars, midiVars>>
notKbd == <<poolVars, pipeVars, stackVars, parserVars, pureVars, midiVars>>
notPure == <<poolVars, pipeVars, stackVars, parserVars, kbdVars, midiVars>>
notMidi == <<poolVars, pipeVars, stackVars, parserVars, kbdVars, pureVars>>

(***************************************************************************)
(* AddressPool                                                             *)
(***************************************************************************)
MAX_DEVICES == 127

\* width of pool_bits (u128)
POOL_WIDTH == 128

\* addresses put_back is called with in the pool specification
PutBackAddrs == {0, 1, 63, MAX_DEVICES}

\* const FULL_POOL: u128 = u128::MAX >> 1
FULL_POOL == 0 .. (POOL_WIDTH - 2)

\* u128::leading_zeros
leading_zeros(bits) ==
    IF bits = {} THEN POOL_WIDTH
    ELSE POOL_WIDTH - 1 - (CHOOSE b \in bits : \A c \in bits : c <= b)

NoAddr == -1

\* AddressPool::take_next, the bit it clears
take_next_bit(next) == POOL_WIDTH - (next + 1)

\* variant that stops one address short of MAX_DEVICES
take_next_ret_short(bits) ==
    LET next == leading_zeros(bits) % 256
    IN  IF next < MAX_DEVICES THEN next ELSE NoAddr

\* AddressPool::take_next, the returned Option<DevAddress> (NoAddr is None)
take_next_ret(bits) ==
    LET next == leading_zeros(bits) % 256
    IN  IF next <= MAX_DEVICES THEN next ELSE NoAddr

\* AddressPool::take_next, the pool afterwards
take_next_bits(bits) ==
    LET next == leading_zeros(bits) % 256
    IN  IF next <= MAX_DEVICES THEN bits \ {take_next_bit(next)} ELSE bits

\* AddressPool::put_back, the bit it sets
put_back_bit(addr) == addr

\* AddressPool::put_back, the pool afterwards
put_back_bits(bits, addr) ==
    IF addr <= MAX_DEVICES THEN bits \cup {put_back_bit(addr)} ELSE bits

\* AddressPool::reset
reset_bits == FULL_POOL

\* AddressPool::new
PoolInit ==
    /\ pool_bits = FULL_POOL
    /\ held = {}
    /\ pool_last = [op |-> "new", arg |-> NoAddr, ret |-> NoAddr, held_before |-> {},
                    takes |-> 0, legit |-> TRUE]

TakeNext ==
    /\ UNCHANGED notPool
    /\ pool_bits' = take_next_bits(pool_bits)
    /\ held' = IF take_next_ret(pool_bits) = NoAddr THEN held
               ELSE held \cup {take_next_ret(pool_bits)}
    /\ pool_last' = [op |-> "take", arg |-> NoAddr, ret |-> take_next_ret(pool_bits),
                     held_before |-> held,
                     takes |-> IF pool_last.takes >= 0 /\ pool_last.takes <= MAX_DEVICES
                               THEN pool_last.takes + 1 ELSE pool_last.takes,
                     legit |-> pool_last.legit]

PutBack(addr) ==
    /\ UNCHANGED notPool
    /\ pool_bits' = put_back_bits(pool_bits, addr)
    /\ held' = held \ {addr}
    /\ pool_last' = [op |-> "put", arg |-> addr, ret |-> NoAddr, held_before |-> held,
                     takes |-> -1, legit |-> pool_last.legit /\ addr \in held]

PoolReset ==
    /\ UNCHANGED notPool
    /\ pool_bits' = reset_bits
    /\ held' = {}
    /\ pool_last' = [op |-> "reset", arg |-> NoAddr, ret |-> NoAddr, held_before |-> held,
                     takes |-> 0, legit |-> TRUE]

PoolPutBack == \E addr \in PutBackAddrs : PutBack(addr)


(***************************************************************************)
(* Pipe engine (atsamd/pipe.rs)                                            *)
(***************************************************************************)
\* const USB_TIMEOUT: u64 = 5000
USB_TIMEOUT == 5000

\* const NAK_LIMIT: usize = 15
NAK_LIMIT == 15

\* in_transfer: let packet_size = 8
packet_size == 8

\* size_of::<SetupPacket>()
SETUP_PACKET_LEN == 8

\* the clock advances in jumps of ClockJump up to MaxPipeNow
ClockJump == 5001
MaxPipeNow == 5001

\* at most MaxTokens tokens are dispatched in one call
MaxTokens == 4

\* buffer lengths of the calls, byte counts the hardware reports per packet
BufLens == {0, 8, 10}
PacketCounts == {0, 2, 8, 32}

\* bmRequestType bytes of the control transfers: standard device OUT,
\* standard device IN, class interface OUT
BmRequestTypes == {0, 128, 33}

\* the endpoints transfers are issued to: (transfer type, max packet size)
Endpoints ==
    { [in_toggle |-> FALSE, out_toggle |-> FALSE, transfer_type |-> t[1], max_packet_size |-> t[2]] :
        t \in {<<"Control", 64>>, <<"Interrupt", 8>>, <<"Bulk", 64>>} }

\* what one poll reads from the hardware: PINTFLAG.txstp/trcpt0/trfail/stall,
\* STATUS_BK.errorflow, STATUS_PIPE.touter/dtgler
HwFlag(txstp, trcpt0, errorflow, touter, dtgler, trfail, stall) ==
    [txstp |-> txstp, trcpt0 |-> trcpt0, errorflow |-> errorflow, touter |-> touter,
     dtgler |-> dtgler, trfail |-> trfail, stall |-> stall]

HwPolls ==
    { HwFlag(FALSE, FALSE, FALSE, FALSE, FALSE, FALSE, FALSE),
      HwFlag(TRUE,  TRUE,  FALSE, FALSE, FALSE, FALSE, FALSE),
      HwFlag(TRUE,  TRUE,  TRUE,  FALSE, FALSE, FALSE, FALSE),
      HwFlag(FALSE, FALSE, TRUE,  FALSE, FALSE, FALSE, FALSE),
      HwFlag(FALSE, FALSE, FALSE, TRUE,  FALSE, FALSE, FALSE),
      HwFlag(FALSE, FALSE, FALSE, FALSE, TRUE,  FALSE, FALSE),
      HwFlag(FALSE, FALSE, FALSE, FALSE, FALSE, TRUE,  FALSE),
      HwFlag(FALSE, FALSE, FALSE, FALSE, TRUE,  TRUE,  FALSE),
      HwFlag(FALSE, FALSE, FALSE, FALSE, FALSE, TRUE,  TRUE) }

\* Result<usize, PipeErr>
Ok(n) == [status |-> "ok", len |-> n, err |-> "none"]
Err(e) == [status |-> "err", len |-> 0, err |-> e]
Panicked == [status |-> "panic", len |-> 0, err |-> "none"]
NoResult == [status |-> "none", len |-> 0, err |-> "none"]

IdleCall ==
    [op |-> "none", stage |-> "none", direction |-> "none", hasbuf |-> FALSE, buflen |-> 0,
     token |-> "none", retries |-> 0, naks |-> 0, until |-> 0, bytes |-> 0, transfer_len |-> 0]

NoLast ==
    [token |-> "none", in0 |-> FALSE, out0 |-> FALSE, in1 |-> FALSE, out1 |-> FALSE,
     dtgl_errs |-> 0, res |-> NoResult]
NoInRes == [done |-> FALSE, pkts |-> <<>>, res |-> NoResult]
NoReq == [op |-> "none", direction |-> "none", hasbuf |-> FALSE, buflen |-> 0]
NoErr == [stage |-> "none", res |-> NoResult]
\* history: whether the last turn of the dispatch_retries loop read a STALL, and
\* for a turn that returned an error before the deadline what it read and the
\* errors counted before it
NoPoll ==
    [seen |-> "none", stall |-> FALSE, late |-> FALSE, naks |-> 0, returned |-> FALSE,
     res |-> NoResult]

FreshHist ==
    [req |-> NoReq, log |-> <<>>, pkts |-> <<>>, last |-> NoLast, in_res |-> NoInRes,
     first_err |-> NoErr, cur |-> [in0 |-> FALSE, out0 |-> FALSE, dtgl_errs |-> 0],
     poll |-> NoPoll]

\* history: the first error a stage of the call returned
NoteErr(m, r) ==
    IF r.status = "err" /\ m.hist.first_err = NoErr
    THEN [m EXCEPT !.hist.first_err = [stage |-> m.call.stage, res |-> r]]
    ELSE m

\* RequestType::direction
direction(bm_request_type) ==
    IF (bm_request_type \div 128) % 2 = 1 THEN "DeviceToHost" ELSE "HostToDevice"

\* the toggles left alone by a SETUP token
dispatch_packet_keep_toggles(m, token) ==
    LET m1 == [m EXCEPT !.regs.ptoken = token]
        m2 == CASE token = "Setup" -> [m1 EXCEPT !.regs.bk0rdy = TRUE, !.regs.dtgl = FALSE]
                [] token = "In" ->
                     [m1 EXCEPT !.regs.bk0rdy = FALSE, !.regs.dtgl = m1.ep.in_toggle]
                [] token = "Out" ->
                     [m1 EXCEPT !.regs.bk0rdy = TRUE, !.regs.dtgl = m1.ep.out_toggle]
                [] OTHER -> m1
    IN  [m2 EXCEPT !.regs.pfreeze = FALSE]

\* Pipe::dispatch_packet
dispatch_packet(m, token) ==
    LET m1 == [m EXCEPT !.regs.ptoken = token]
        m2 == CASE token = "Setup" ->
                     [m1 EXCEPT !.regs.bk0rdy = TRUE, !.regs.dtgl = FALSE,
                                !.ep.in_toggle = TRUE, !.ep.out_toggle = TRUE]
                [] token = "In" ->
                     [m1 EXCEPT !.regs.bk0rdy = FALSE, !.regs.dtgl = m1.ep.in_toggle]
                [] token = "Out" ->
                     [m1 EXCEPT !.regs.bk0rdy = TRUE, !.regs.dtgl = m1.ep.out_toggle]
                [] OTHER -> m1
    IN  [m2 EXCEPT !.regs.pfreeze = FALSE]

\* Pipe::is_transfer_complete
is_transfer_complete(token, hw) ==
    CASE token = "Setup" -> hw.txstp
      [] token = "In" -> hw.trcpt0
      [] token = "Out" -> hw.trcpt0
      [] OTHER -> FALSE

\* Pipe::dispatch_result: "Done" is Ok(true), "Pending" is Ok(false), else the PipeErr
dispatch_result(token, hw) ==
    IF token \notin {"Setup", "In", "Out"} THEN "InvalidToken"
    ELSE IF is_transfer_complete(token, hw) THEN "Done"
    ELSE IF hw.errorflow THEN "Flow"
    ELSE IF hw.touter THEN "HardwareTimeout"
    ELSE IF hw.dtgler THEN "DataToggle"
    ELSE IF hw.trfail THEN "TransferFail"
    ELSE "Pending"

\* Pipe::data_toggle
data_toggle(m, token) ==
    CASE token = "In" ->
           [m EXCEPT !.ep.in_toggle = ~m.ep.in_toggle, !.regs.dtgl = ~m.ep.in_toggle]
      [] token = "Out" ->
           [m EXCEPT !.ep.out_toggle = ~m.ep.out_toggle, !.regs.dtgl = ~m.ep.out_toggle]
      [] token = "Setup" -> [m EXCEPT !.regs.dtgl = FALSE]
      [] OTHER -> [m EXCEPT !.regs.dtgl = ~m.regs.dtgl]

\* the swap forgotten for OUT
swap_toggle_in_only(m, token) ==
    CASE token = "In" -> [m EXCEPT !.ep.in_toggle = ~m.ep.in_toggle]
      [] OTHER -> m

\* dispatch_retries, Ok(true): swap sequence bits on successful transfer
swap_toggle(m, token) ==
    CASE token = "In" -> [m EXCEPT !.ep.in_toggle = ~m.ep.in_toggle]
      [] token = "Out" -> [m EXCEPT !.ep.out_toggle = ~m.ep.out_toggle]
      [] OTHER -> m

\* a call returns to its caller
Finish(m, r) == [m EXCEPT !.call = IdleCall, !.res = r]

\* dispatch_retries up to its loop: dispatch_packet, until = after_millis(USB_TIMEOUT), naks = 0
Dispatch(m, token, stage, retries, now) ==
    LET m1 == dispatch_packet(m, token)
    IN  [m1 EXCEPT !.call.token = token, !.call.stage = stage, !.call.retries = retries,
                   !.call.naks = 0, !.call.until = now + USB_TIMEOUT,
                   !.hist.log = Append(m.hist.log, [token |-> token, stage |-> stage]),
                   !.hist.cur = [in0 |-> m.ep.in_toggle, out0 |-> m.ep.out_toggle,
                                 dtgl_errs |-> 0]]

\* control_transfer, the token of the STATUS stage
status_token(dir) == IF dir = "DeviceToHost" THEN "Out" ELSE "In"

\* control_transfer from the STATUS stage on: byte_count = 0, dispatch_retries(token)
StatusStart(m, now) ==
    Dispatch([m EXCEPT !.desc.byte_count = 0], status_token(m.call.direction),
             "status", NAK_LIMIT, now)

\* the DATA stage's error dropped: the STATUS stage runs all the same
AfterData_ignore_err(m, r, now) ==
    StatusStart([m EXCEPT !.call.transfer_len = r.len], now)

\* control_transfer after its DATA stage returned r (the `?` and transfer_len)
AfterData(m, r, now) ==
    IF r.status = "ok"
    THEN StatusStart([m EXCEPT !.call.transfer_len = r.len], now)
    ELSE Finish(m, r)

\* in_transfer / out_transfer return r to their caller
TransferReturn(m, r, now) ==
    LET m1 == IF m.call.stage = "data" \/ m.call.op = "in"
              THEN [m EXCEPT !.hist.in_res =
                        IF m.call.op = "in" \/ m.call.direction = "DeviceToHost"
                        THEN [done |-> TRUE, pkts |-> m.hist.pkts, res |-> r]
                        ELSE m.hist.in_res]
              ELSE m
    IN  IF m.call.op = "control" THEN AfterData(m1, r, now) ELSE Finish(m1, r)

\* in_transfer after its loop: freeze, ShortPacket unless the buffer is full
InExit(m, now) ==
    LET m1 == [m EXCEPT !.regs.pfreeze = TRUE]
    IN  IF m1.call.bytes < m1.call.buflen
        THEN TransferReturn(NoteErr(m1, Err("ShortPacket")), Err("ShortPacket"), now)
        ELSE TransferReturn(m1, Ok(m1.call.bytes), now)

\* in_transfer, the loop head: while bytes_received < buf.len()
InLoop(m, stage, now) ==
    IF m.call.bytes < m.call.buflen
    THEN Dispatch([m EXCEPT !.desc.addr = m.call.bytes, !.regs.bk0rdy = FALSE],
                  "In", stage, m.call.retries, now)
    ELSE InExit(m, now)

\* in_transfer up to its first dispatch
InStart(m, stage, nak_limit, now) ==
    InLoop([m EXCEPT !.desc.byte_count = m.call.buflen, !.call.bytes = 0,
                     !.call.retries = nak_limit, !.call.stage = stage,
                     !.hist.pkts = <<>>],
           stage, now)

\* in_transfer after dispatch_retries returned r, the hardware reporting recvd bytes
InAfter(m, r, recvd, now) ==
    IF r.status # "ok" THEN TransferReturn(m, r, now)
    ELSE LET m1 == [m EXCEPT !.desc.byte_count = recvd,
                             !.call.bytes = m.call.bytes + recvd,
                             !.hist.pkts = Append(m.hist.pkts, recvd)]
         IN  IF recvd < packet_size THEN InExit(m1, now)
             ELSE IF ~(m1.call.bytes <= m1.call.buflen) THEN Finish(m1, Panicked)
             ELSE InLoop(m1, m1.call.stage, now)

\* out_transfer, the loop head: while bytes_sent < buf.len()
OutLoop(m, stage, now) ==
    IF m.call.bytes < m.call.buflen
    THEN Dispatch([m EXCEPT !.desc.addr = m.call.bytes], "Out", stage, m.call.retries, now)
    ELSE TransferReturn(m, Ok(m.call.bytes), now)

\* out_transfer up to its first dispatch
OutStart(m, stage, nak_limit, now) ==
    OutLoop([m EXCEPT !.desc.byte_count = m.call.buflen, !.call.bytes = 0,
                      !.call.retries = nak_limit, !.call.stage = stage],
            stage, now)

\* out_transfer after dispatch_retries returned r, the hardware reporting sent bytes
OutAfter(m, r, sent, now) ==
    IF r.status # "ok" THEN TransferReturn(m, r, now)
    ELSE OutLoop([m EXCEPT !.desc.byte_count = sent, !.call.bytes = m.call.bytes + sent],
                 m.call.stage, now)

\* control_transfer after send(Setup) returned r
AfterSetup(m, r, now) ==
    IF r.status # "ok" THEN Finish(m, r)
    ELSE IF m.call.hasbuf
         THEN IF m.call.direction = "DeviceToHost"
              THEN InStart(m, "data", NAK_LIMIT, now)
              ELSE OutStart(m, "data", NAK_LIMIT, now)
         ELSE StatusStart(m, now)

\* control_transfer after the STATUS dispatch_retries returned r
AfterStatus(m, r) ==
    IF r.status # "ok" THEN Finish(m, r)
    ELSE Finish(m, Ok(m.call.transfer_len))

\* dispatch_retries returns r: the caller goes on from where it called
Return(m, r, count, now) ==
    LET m1 == [NoteErr(m, r) EXCEPT !.hist.last =
                   [token |-> m.call.token, in0 |-> m.hist.cur.in0, out0 |-> m.hist.cur.out0,
                    in1 |-> m.ep.in_toggle, out1 |-> m.ep.out_toggle,
                    dtgl_errs |-> m.hist.cur.dtgl_errs, res |-> r],
                   !.hist.poll.returned = TRUE, !.hist.poll.res = r]
    IN  CASE m.call.stage = "setup" -> AfterSetup(m1, r, now)
          [] m.call.stage = "status" -> AfterStatus(m1, r)
          [] m.call.token = "In" -> InAfter(m1, r, count, now)
          [] OTHER -> OutAfter(m1, r, count, now)

\* after_millis(0) > until
past_deadline_never(now, until) == FALSE
past_deadline(now, until) == now > until

\* naks > retries
over_budget_at(naks, retries) == naks >= retries
over_budget(naks, retries) == naks > retries

\* dispatch_retries: one turn of its loop
PollStep(m, hw, count, now) ==
    IF past_deadline(now, m.call.until) THEN Return(m, Err("SoftwareTimeout"), count, now)
    ELSE LET res == dispatch_result(m.call.token, hw)
         IN  CASE res = "Done" ->
                    Return(swap_toggle([m EXCEPT !.regs.pfreeze = TRUE], m.call.token),
                           Ok(0), count, now)
               [] res = "Pending" -> m
               [] res = "DataToggle" ->
                    [data_toggle(m, m.call.token) EXCEPT
                        !.hist.cur.dtgl_errs = (m.hist.cur.dtgl_errs + 1) % 2]
               [] res = "Flow" /\ m.ep.transfer_type = "Interrupt" ->
                    Return(m, Err("Flow"), count, now)
               [] res = "Stall" -> Return(m, Err("Stall"), count, now)
               [] OTHER ->
                    IF over_budget(m.call.naks + 1, m.call.retries)
                    THEN Return(m, Err(res), count, now)
                    ELSE [m EXCEPT !.call.naks = m.call.naks + 1]

\* the pipe, its endpoint and the running call as one value
Machine ==
    [ep |-> ep, regs |-> regs, desc |-> desc, call |-> call, res |-> pres, hist |-> phist]

SetMachine(m) ==
    /\ ep' = m.ep
    /\ regs' = m.regs
    /\ desc' = m.desc
    /\ call' = m.call
    /\ pres' = m.res
    /\ phist' = m.hist

NewCall(op, dir, hasbuf, buflen) ==
    [Machine EXCEPT !.call = [IdleCall EXCEPT !.op = op, !.direction = dir,
                                              !.hasbuf = hasbuf, !.buflen = buflen],
                    !.res = NoResult,
                    !.hist = [FreshHist EXCEPT !.req = [op |-> op, direction |-> dir,
                                                        hasbuf |-> hasbuf, buflen |-> buflen]]]

\* PipeTable::new and a fresh endpoint
PipeEngineInit ==
    /\ ep \in Endpoints
    /\ regs = [ptoken |-> "none", dtgl |-> FALSE, pfreeze |-> TRUE, bk0rdy |-> FALSE]
    /\ desc = [byte_count |-> 0, addr |-> 0]
    /\ call = IdleCall
    /\ pnow = 0
    /\ pres = NoResult
    /\ phist = FreshHist

\* Pipe::control_transfer up to the first poll of the SETUP token:
\* send(Setup) writes the packet address and its length, then dispatches
ControlTransfer(bm_request_type, hasbuf, buflen) ==
    /\ call.op = "none"
    /\ ep.transfer_type = "Control"
    /\ SetMachine(Dispatch([NewCall("control", direction(bm_request_type), hasbuf, buflen)
                               EXCEPT !.desc.addr = 0, !.desc.byte_count = SETUP_PACKET_LEN],
                           "Setup", "setup", NAK_LIMIT, pnow))
    /\ UNCHANGED <<pnow, notPipe>>

\* Pipe::in_transfer (called on its own) up to the first poll
InTransfer(buflen) ==
    /\ call.op = "none"
    /\ ep.transfer_type # "Control"
    /\ SetMachine(InStart(NewCall("in", "none", TRUE, buflen), "none", NAK_LIMIT, pnow))
    /\ UNCHANGED <<pnow, notPipe>>

\* Pipe::out_transfer (called on its own) up to the first poll
OutTransfer(buflen) ==
    /\ call.op = "none"
    /\ ep.transfer_type # "Control"
    /\ SetMachine(OutStart(NewCall("out", "none", TRUE, buflen), "none", NAK_LIMIT, pnow))
    /\ UNCHANGED <<pnow, notPipe>>

\* history: trim the record of the turn to what is kept
NotePoll(m) ==
    LET q == m.hist.poll IN
    IF q.returned /\ q.res.status = "err"
    THEN IF q.late THEN [m EXCEPT !.hist.poll.naks = 0] ELSE m
    ELSE [m EXCEPT !.hist.poll = [NoPoll EXCEPT !.stall = q.stall]]

\* one turn of the dispatch_retries loop and what the callers do when it returns
Poll(hw, count) ==
    /\ call.op # "none"
    /\ Len(PollStep(Machine, hw, count, pnow).hist.log) <= MaxTokens
    /\ SetMachine(NotePoll(PollStep([Machine EXCEPT !.hist.poll =
                                [seen |-> IF pnow > call.until THEN "none"
                                          ELSE dispatch_result(call.token, hw),
                                 stall |-> hw.stall /\ pnow <= call.until,
                                 late |-> pnow > call.until, naks |-> call.naks,
                                 returned |-> FALSE, res |-> NoResult]],
                            hw, count, pnow)))
    /\ UNCHANGED <<pnow, notPipe>>

\* the millisecond clock behind after_millis
ClockAdvance ==
    /\ pnow + ClockJump <= MaxPipeNow
    /\ pnow' = pnow + ClockJump
    /\ UNCHANGED <<ep, regs, desc, call, pres, phist, notPipe>>

PipeControlTransfer ==
    \E bm \in BmRequestTypes, hasbuf \in BOOLEAN, buflen \in BufLens :
        /\ (~hasbuf => buflen = 0)
        /\ ControlTransfer(bm, hasbuf, buflen)
PipeInTransfer == \E buflen \in BufLens : InTransfer(buflen)
PipeOutTransfer == \E buflen \in BufLens : OutTransfer(buflen)
\* the byte count is read only after a completed IN or OUT of a transfer loop
ReadsCount(hw) ==
    /\ call.stage \notin {"setup", "status"}
    /\ pnow <= call.until
    /\ dispatch_result(call.token, hw) = "Done"

PipePoll ==
    \E hw \in HwPolls, count \in PacketCounts :
        /\ (~ReadsCount(hw) => count = 0)
        /\ Poll(hw, count)

NextPipe ==
    \/ PipeControlTransfer
    \/ PipeInTransfer
    \/ PipeOutTransfer
    \/ PipePoll
    \/ ClockAdvance


(***************************************************************************)
(* HostController (atsamd/host.rs)                                         *)
(***************************************************************************)
\* USB spec requires 20ms of SOF after bus reset
SOF_SETTLE_MS == 20

\* the 10 ms settle after SET_ADDRESS and after SET_CONFIGURATION
SETTLE_MS == 10

\* UsbStack::devices: Vec<_, 16>; UsbStack::drivers: Vec<_, 4>
MAX_STACK_DEVICES == 16
MAX_DRIVERS == 4

\* the clock advances by TickMs up to MaxNow
TickMs == 10
MaxNow == 40

\* at most MaxPending interrupt flags are pending at once
MaxPending == 2

\* next_irq tests the flags in this order
IrqOrder ==
    <<"Detached", "Attached", "RamAccess", "UpstreamResume", "DownResume", "WakeUp",
      "Reset", "HostStartOfFrame">>

\* the interrupts the hardware raises
IrqsRaised == {"Detached", "Attached", "WakeUp", "Reset", "HostStartOfFrame"}

\* HostController::next_irq: the first pending flag in IrqOrder, "None" if none
next_irq(flags) ==
    IF \A i \in 1 .. Len(IrqOrder) : IrqOrder[i] \notin flags THEN "None"
    ELSE IrqOrder[CHOOSE i \in 1 .. Len(IrqOrder) :
                      /\ IrqOrder[i] \in flags
                      /\ \A j \in 1 .. (i - 1) : IrqOrder[j] \notin flags]

HState(s, until) == [s |-> s, until |-> until]

\* variant that starts the settle wait on attach, without the bus reset
host_match_skip_bus_reset(hs, irq, t, enum_ok) ==
    CASE irq = "Detached" ->
           [state |-> HState("Initialize", 0), event |-> "None"]
      [] irq = "Attached" /\ hs.s = "WaitForDevice" ->
           [state |-> HState("WaitSOF", t + SOF_SETTLE_MS), event |-> "None"]
      [] irq = "Reset" /\ hs.s = "WaitResetComplete" ->
           [state |-> HState("WaitSOF", t + SOF_SETTLE_MS), event |-> "None"]
      [] irq = "HostStartOfFrame" /\ hs.s = "WaitSOF" /\ t >= hs.until ->
           IF enum_ok THEN [state |-> HState("Ready", 0), event |-> "Ready"]
           ELSE [state |-> HState("Error", 0), event |-> "None"]
      [] irq = "HostStartOfFrame" /\ hs.s = "Ready" ->
           [state |-> hs, event |-> "Tick"]
      [] OTHER -> [state |-> hs, event |-> "None"]

\* variant that takes the first Start-of-Frame after the bus reset as settled
host_match_no_settle(hs, irq, t, enum_ok) ==
    CASE irq = "Detached" ->
           [state |-> HState("Initialize", 0), event |-> "None"]
      [] irq = "Attached" /\ hs.s = "WaitForDevice" ->
           [state |-> HState("WaitResetComplete", 0), event |-> "None"]
      [] irq = "Reset" /\ hs.s = "WaitResetComplete" ->
           [state |-> HState("WaitSOF", t + SOF_SETTLE_MS), event |-> "None"]
      [] irq = "HostStartOfFrame" /\ hs.s = "WaitSOF" ->
           IF enum_ok THEN [state |-> HState("Ready", 0), event |-> "Ready"]
           ELSE [state |-> HState("Error", 0), event |-> "None"]
      [] irq = "HostStartOfFrame" /\ hs.s = "Ready" ->
           [state |-> hs, event |-> "Tick"]
      [] OTHER -> [state |-> hs, event |-> "None"]

\* variant that honours a detach only while a device is connected
host_match_detach_ready_only(hs, irq, t, enum_ok) ==
    CASE irq = "Detached" /\ hs.s = "Ready" ->
           [state |-> HState("Initialize", 0), event |-> "None"]
      [] irq = "Attached" /\ hs.s = "WaitForDevice" ->
           [state |-> HState("WaitResetComplete", 0), event |-> "None"]
      [] irq = "Reset" /\ hs.s = "WaitResetComplete" ->
           [state |-> HState("WaitSOF", t + SOF_SETTLE_MS), event |-> "None"]
      [] irq = "HostStartOfFrame" /\ hs.s = "WaitSOF" /\ t >= hs.until ->
           IF enum_ok THEN [state |-> HState("Ready", 0), event |-> "Ready"]
           ELSE [state |-> HState("Error", 0), event |-> "None"]
      [] irq = "HostStartOfFrame" /\ hs.s = "Ready" ->
           [state |-> hs, event |-> "Tick"]
      [] OTHER -> [state |-> hs, event |-> "None"]

\* HostController::update, the match on (irq, self.state): the state and the
\* event it leaves; enum_ok is the result of the enumeration it starts
host_match(hs, irq, t, enum_ok) ==
    CASE irq = "Detached" ->
           [state |-> HState("Initialize", 0), event |-> "None"]
      [] irq = "Attached" /\ hs.s = "WaitForDevice" ->
           [state |-> HState("WaitResetComplete", 0), event |-> "None"]
      [] irq = "Reset" /\ hs.s = "WaitResetComplete" ->
           [state |-> HState("WaitSOF", t + SOF_SETTLE_MS), event |-> "None"]
      [] irq = "HostStartOfFrame" /\ hs.s = "WaitSOF" /\ t >= hs.until ->
           IF enum_ok THEN [state |-> HState("Ready", 0), event |-> "Ready"]
           ELSE [state |-> HState("Error", 0), event |-> "None"]
      [] irq = "HostStartOfFrame" /\ hs.s = "Ready" ->
           [state |-> hs, event |-> "Tick"]
      [] OTHER -> [state |-> hs, event |-> "None"]

\* HostController::update: next_irq, the match, and the reset in Initialize
\* (reset_host: ctrla.swrst clears the controller's registers)
host_update(hs, flags, t, enum_ok) ==
    LET irq == next_irq(flags)
        m == host_match(hs, irq, t, enum_ok)
    IN  IF m.state.s = "Initialize"
        THEN [state |-> HState("WaitForDevice", 0), intflag |-> {}, event |-> "Reset",
              irq |-> irq, via_init |-> TRUE]
        ELSE [state |-> m.state, intflag |-> flags \ {irq}, event |-> m.event,
              irq |-> irq, via_init |-> FALSE]

(***************************************************************************)
(* Device (device.rs) and UsbStack (stack.rs)                              *)
(***************************************************************************)
NoDriver == -1

DState(s, until, iface) == [s |-> s, until |-> until, iface |-> iface]

NoError == [kind |-> "none", cause |-> "none"]
UsbError(kind, cause) == [kind |-> kind, cause |-> cause]

\* variant that creates the device with an address already
NewDevice_addressed(max_bus_packet_size) ==
    [address |-> 1, state |-> DState("SetAddress", 0, 0),
     max_packet_len |-> max_bus_packet_size, error |-> NoError, driver_idx |-> NoDriver,
     created_with |-> max_bus_packet_size, desc_bmps |-> <<>>]

\* Device::new, with no driver index; two history fields: the size the device
\* was created with, and <<b>> once a device descriptor with bMaxPacketSize0
\* = b has been read
NewDevice(max_bus_packet_size) ==
    [address |-> 0, state |-> DState("SetAddress", 0, 0),
     max_packet_len |-> max_bus_packet_size, error |-> NoError, driver_idx |-> NoDriver,
     created_with |-> max_bus_packet_size, desc_bmps |-> <<>>]

\* errors a control transfer returns to the stack
XferErrs == {"Stall", "SoftwareTimeout"}

\* what the bus and the drivers answer during one update_dev
NoInput ==
    [fail_at |-> 0, xerr |-> "Stall", bmps |-> 8, cfg_len |-> 34, accepts |-> {},
     conf_num |-> 1, iface |-> 0, next |-> "Running", run_ok |-> TRUE, consumed |-> 9]

\* states a driver moves its device through
DriverStates == {"SetReport", "SetIdle", "Running"}

\* UsbHost::delay_done
delay_done(t, until) == t >= until

\* one control transfer as the stack sees it
Xfer(req, addr, ok) == [req |-> req, addr |-> addr, ok |-> ok]

\* a take_next call of the address pool, in the order of the transfers
Alloc(addr) == [req |-> "take_next", addr |-> addr, ok |-> TRUE]

\* what update_dev and its callees hand back
Step(d, pool, xfers, ran, res) ==
    [dev |-> d, pool |-> pool, xfers |-> xfers, ran |-> ran, res |-> res, accepts |-> <<>>]

\* variant that reads the descriptor and keeps the stored size
shrink_packet_len_never(d, b_max_packet_size) ==
    [d EXCEPT !.desc_bmps = <<b_max_packet_size>>]

\* Device::get_device_descriptor: the stored max packet size afterwards
\* (the comparison is made on max_packet_len as u8)
shrink_packet_len(d, b_max_packet_size) ==
    IF b_max_packet_size < d.max_packet_len % 256
    THEN [d EXCEPT !.max_packet_len = b_max_packet_size,
                   !.desc_bmps = <<b_max_packet_size>>]
    ELSE [d EXCEPT !.desc_bmps = <<b_max_packet_size>>]

\* UsbStack::address_dev with Device::get_device_descriptor and Device::set_address
address_dev(d, pool, in, t) ==
    LET addr == take_next_ret(pool)
        pool1 == take_next_bits(pool)
        x0 == Alloc(addr)
        x1 == Xfer("GetDescriptor:Device", d.address, in.fail_at # 1)
        d1 == shrink_packet_len(d, in.bmps)
        x2 == Xfer("SetAddress", d1.address, in.fail_at # 2)
    IN  IF addr = NoAddr
        THEN Step(d, pool1, <<x0>>, FALSE, UsbError("Permanent", "Out of USB addr"))
        ELSE IF in.fail_at = 1
        THEN Step(d, pool1, <<x0, x1>>, FALSE, UsbError("GetDescriptor", in.xerr))
        ELSE IF d1.address # 0
        THEN Step(d1, put_back_bits(pool1, addr), <<x0, x1>>, FALSE,
                  UsbError("AddressSet", "none"))
        ELSE IF in.fail_at = 2
        THEN Step(d1, put_back_bits(pool1, addr), <<x0, x1, x2>>, FALSE,
                  UsbError("SetAddress", in.xerr))
        ELSE Step([d1 EXCEPT !.address = addr, !.state = DState("SetConfig", t + SETTLE_MS, 0)],
                  pool1, <<x0, x1, x2>>, FALSE, NoError)

\* variant that answers with an index past the end of the registry
first_match_beyond(accepts, nd) == nd

\* the first driver of the registry that accepts, NoDriver if none does
first_match(accepts, nd) ==
    IF accepts \cap (0 .. (nd - 1)) = {} THEN NoDriver
    ELSE CHOOSE i \in accepts \cap (0 .. (nd - 1)) :
             \A j \in accepts \cap (0 .. (nd - 1)) : i <= j

\* variant that leaves the parser where the last driver stopped
rewind_none(pos) == pos

\* DescriptorParser::rewind: the cursor afterwards
rewind(pos) == 0

\* UsbStack::configure_dev, the loop over the drivers: the accept calls in
\* order, each with the parser cursor it starts from and its answer; an
\* accept leaves the cursor at in.consumed
accept_calls(in, nd) ==
    LET idx == first_match(in.accepts, nd)
        n == IF idx = NoDriver THEN nd ELSE idx + 1
    IN  [k \in 1 .. n |->
            [driver |-> k - 1,
             pos |-> IF k = 1 THEN 0 ELSE rewind(in.consumed),
             match |-> (k - 1) \in in.accepts]]

\* the buffer of configure_dev: let mut buf = [0u8; 256]
CONFIG_BUF_LEN == 256

\* UsbStack::configure_dev with Device::get_configuration_descriptors and
\* Device::set_configuration; update_dev's SetConfig arm sets the state
configure_dev(d, pool, in, t, nd) ==
    LET x1 == Xfer("GetDescriptor:Configuration", d.address, in.fail_at # 1)
        x2 == Xfer("GetDescriptor:Configuration", d.address, in.fail_at # 2)
        x3 == Xfer("SetConfiguration", d.address, in.fail_at # 3)
        idx == first_match(in.accepts, nd)
        calls == accept_calls(in, nd)
    IN  IF in.fail_at = 1
        THEN Step(d, pool, <<x1>>, FALSE, UsbError("GetDescriptor", in.xerr))
        ELSE IF in.cfg_len > CONFIG_BUF_LEN
        THEN Step(d, pool, <<x1>>, FALSE, UsbError("DescriptorTooBig", "none"))
        ELSE IF in.fail_at = 2
        THEN Step(d, pool, <<x1, x2>>, FALSE, UsbError("GetDescriptor", in.xerr))
        ELSE IF idx = NoDriver
        THEN [Step([d EXCEPT !.state = DState("Orphan", 0, 0)], pool, <<x1, x2>>, FALSE, NoError)
                 EXCEPT !.accepts = calls]
        ELSE IF in.conf_num = 0
        THEN [Step(d, pool, <<x1, x2>>, FALSE, UsbError("InvalidConfig", "none"))
                 EXCEPT !.accepts = calls]
        ELSE IF in.fail_at = 3
        THEN [Step(d, pool, <<x1, x2, x3>>, FALSE, UsbError("SetConfiguration", in.xerr))
                 EXCEPT !.accepts = calls]
        ELSE [Step([d EXCEPT !.driver_idx = idx,
                             !.state = DState("SetInterface", t + SETTLE_MS, in.iface)],
                   pool, <<x1, x2, x3>>, FALSE, NoError)
                 EXCEPT !.accepts = calls]

\* update_dev, the SetInterface arm: Device::set_interface, its result only
\* logged, then the state the driver names
set_interface_step(d, pool, in) ==
    LET x1 == Xfer("SetInterface", d.address, in.fail_at # 1)
    IN  IF d.driver_idx # NoDriver
        THEN Step([d EXCEPT !.state =
                       DState(in.next, 0, IF in.next = "SetReport" THEN d.state.iface ELSE 0)],
                  pool, <<x1>>, FALSE, NoError)
        ELSE Step(d, pool, <<x1>>, FALSE, UsbError("NoDriver", "none"))

\* update_dev, the arm of the driver states: Driver::run, which either fails
\* with a transfer error or leaves the device in a driver state
driver_run_step(d, pool, in) ==
    IF d.driver_idx # NoDriver
    THEN IF in.run_ok
         THEN Step([d EXCEPT !.state =
                        DState(in.next, 0, IF in.next = "SetReport" THEN d.state.iface ELSE 0)],
                   pool, <<>>, TRUE, NoError)
         ELSE Step(d, pool, <<>>, TRUE, UsbError("DriverRun", in.xerr))
    ELSE Step(d, pool, <<>>, FALSE, UsbError("NoDriver", "none"))

\* variant that never sees the error slot
has_error_never(d) == FALSE

\* update_dev: devices with an error are skipped
has_error(d) == d.error # NoError

\* variant that does not wait for the settle deadlines
update_dev_no_wait(d, pool, in, t, nd) ==
    IF has_error(d) THEN Step(d, pool, <<>>, FALSE, NoError)
    ELSE CASE d.state.s = "SetAddress" -> address_dev(d, pool, in, t)
           [] d.state.s = "SetConfig" -> configure_dev(d, pool, in, t, nd)
           [] d.state.s = "SetInterface" -> set_interface_step(d, pool, in)
           [] d.state.s = "Orphan" -> Step(d, pool, <<>>, FALSE, NoError)
           [] OTHER -> driver_run_step(d, pool, in)

\* UsbStack::update_dev
update_dev(d, pool, in, t, nd) ==
    IF has_error(d) THEN Step(d, pool, <<>>, FALSE, NoError)
    ELSE CASE d.state.s = "SetAddress" -> address_dev(d, pool, in, t)
           [] d.state.s = "SetConfig" ->
                IF delay_done(t, d.state.until) THEN configure_dev(d, pool, in, t, nd)
                ELSE Step(d, pool, <<>>, FALSE, NoError)
           [] d.state.s = "SetInterface" ->
                IF delay_done(t, d.state.until) THEN set_interface_step(d, pool, in)
                ELSE Step(d, pool, <<>>, FALSE, NoError)
           [] d.state.s = "Orphan" -> Step(d, pool, <<>>, FALSE, NoError)
           [] OTHER -> driver_run_step(d, pool, in)

\* UsbStack::update, the body of the upkeep loop: update_dev, then set_error
upkeep_dev(d, pool, in, t, nd) ==
    LET st == update_dev(d, pool, in, t, nd)
    IN  IF st.res # NoError THEN [st EXCEPT !.dev.error = st.res] ELSE st

\* UsbStack::update, the upkeep loop over devices i..Len(devs)
RECURSIVE upkeep(_, _, _, _, _, _, _)
upkeep(devs, pool, ins, t, nd, i, acc) ==
    IF i > Len(devs) THEN [devices |-> devs, pool |-> pool, steps |-> acc]
    ELSE LET st == upkeep_dev(devs[i], pool, ins[i], t, nd)
         IN  upkeep([devs EXCEPT ![i] = st.dev], st.pool, ins, t, nd, i + 1,
                    Append(acc, [xfers |-> st.xfers, ran |-> st.ran, res |-> st.res,
                                 accepts |-> st.accepts]))

\* variant that unregisters nothing
unregister_none(devs) == <<>>

\* UsbStack::update, the Reset arm: the unregister calls, in order
unregister_calls(devs) ==
    LET owned == SelectSeq(devs, LAMBDA d : d.driver_idx # NoDriver)
    IN  [i \in 1 .. Len(owned) |-> [driver |-> owned[i].driver_idx, addr |-> owned[i].address]]


\* the device list kept across a Reset
handle_event_keep(devs, pool, event, mps) ==
    CASE event = "Ready" ->
           [devices |-> IF Len(devs) < MAX_STACK_DEVICES THEN Append(devs, NewDevice(mps))
                        ELSE devs,
            pool |-> pool, unreg |-> <<>>]
      [] event = "Reset" ->
           [devices |-> devs, pool |-> reset_bits, unreg |-> unregister_calls(devs)]
      [] OTHER -> [devices |-> devs, pool |-> pool, unreg |-> <<>>]

\* UsbStack::update, the match on the host event
handle_event(devs, pool, event, mps) ==
    CASE event = "Ready" ->
           [devices |-> IF Len(devs) < MAX_STACK_DEVICES THEN Append(devs, NewDevice(mps))
                        ELSE devs,
            pool |-> pool, unreg |-> <<>>]
      [] event = "Reset" ->
           [devices |-> <<>>, pool |-> reset_bits, unreg |-> unregister_calls(devs)]
      [] OTHER -> [devices |-> devs, pool |-> pool, unreg |-> <<>>]

\* the answers update_dev can read for a device in its present state: an
\* answer behind a failed step is never read, so it keeps its NoInput value
AddressInputs ==
    { [NoInput EXCEPT !.fail_at = 1, !.xerr = e] : e \in XferErrs }
    \cup { [NoInput EXCEPT !.bmps = b] : b \in {8, 64} }
    \cup { [NoInput EXCEPT !.fail_at = 2, !.xerr = e, !.bmps = b] : e \in XferErrs, b \in {8, 64} }

ConfigInputs(nd) ==
    { [NoInput EXCEPT !.fail_at = f, !.xerr = e] : f \in 1 .. 2, e \in XferErrs }
    \cup { [NoInput EXCEPT !.cfg_len = 300] }
    \cup { [NoInput EXCEPT !.accepts = a, !.conf_num = n, !.iface = k, !.consumed = c] :
             a \in SUBSET (0 .. (nd - 1)), n \in {0, 1}, k \in {0, 1}, c \in {9, 34} }
    \cup { [NoInput EXCEPT !.fail_at = 3, !.xerr = e, !.accepts = a, !.consumed = c] :
             e \in XferErrs, a \in SUBSET (0 .. (nd - 1)) \ {{}}, c \in {9, 34} }

InterfaceInputs ==
    { [NoInput EXCEPT !.fail_at = f, !.next = x] : f \in 0 .. 1, x \in DriverStates }

RunInputs ==
    { [NoInput EXCEPT !.next = x] : x \in DriverStates }
    \cup { [NoInput EXCEPT !.run_ok = FALSE, !.xerr = e] : e \in XferErrs }

InputsFor(d, t, nd) ==
    IF has_error(d) THEN {NoInput}
    ELSE CASE d.state.s = "SetAddress" -> AddressInputs
           [] d.state.s = "SetConfig" /\ delay_done(t, d.state.until) -> ConfigInputs(nd)
           [] d.state.s = "SetInterface" /\ delay_done(t, d.state.until) -> InterfaceInputs
           [] d.state.s \in DriverStates -> RunInputs
           [] OTHER -> {NoInput}

NoSlog ==
    [irq |-> "None", hbefore |-> HState("Initialize", 0), via_init |-> FALSE,
     event |-> "None", before |-> <<>>, unreg |-> <<>>, upkept |-> <<>>, pool |-> {},
     steps |-> <<>>]

\* HostController::new, UsbStack::new
StackInit ==
    /\ hstate = HState("Initialize", 0)
    /\ intflag = {}
    /\ millis = 0
    /\ devices = <<>>
    /\ ndrivers = 0
    /\ started = FALSE
    /\ panicked = FALSE
    /\ slog = NoSlog
    /\ reset_at = <<>>

\* UsbStack::add_driver: push(..).or(Err(TooManyDrivers)).unwrap()
AddDriver ==
    /\ ~panicked
    /\ ~started
    /\ IF ndrivers < MAX_DRIVERS
       THEN ndrivers' = ndrivers + 1 /\ panicked' = FALSE
       ELSE ndrivers' = ndrivers /\ panicked' = TRUE
    /\ slog' = NoSlog
    /\ UNCHANGED <<hstate, intflag, millis, devices, started, reset_at, poolVars, pipeVars, parserVars, kbdVars, pureVars, midiVars>>

\* the hardware raises an interrupt flag
RaiseIrq(f) ==
    /\ ~panicked
    /\ f \notin intflag
    /\ Cardinality(intflag) < MaxPending
    /\ intflag' = intflag \cup {f}
    /\ slog' = NoSlog
    /\ UNCHANGED <<hstate, millis, devices, ndrivers, started, panicked, reset_at, poolVars, pipeVars, parserVars, kbdVars, pureVars, midiVars>>

\* the millisecond clock
StackClock ==
    /\ ~panicked
    /\ millis + TickMs <= MaxNow
    /\ millis' = millis + TickMs
    /\ slog' = NoSlog
    /\ UNCHANGED <<hstate, intflag, devices, ndrivers, started, panicked, reset_at, poolVars, pipeVars, parserVars, kbdVars, pureVars, midiVars>>

\* UsbStack::update: the controller's update, the event, the upkeep of every device
Update(enum_ok, mps, ins) ==
    LET h == host_update(hstate, intflag, millis, enum_ok)
        e == handle_event(devices, pool_bits, h.event, mps)
        u == upkeep(e.devices, e.pool, ins, millis, ndrivers, 1, <<>>)
    IN  /\ ~panicked
        /\ hstate' = h.state
        /\ intflag' = h.intflag
        /\ devices' = u.devices
        /\ pool_bits' = u.pool
        /\ started' = TRUE
        /\ slog' = [irq |-> h.irq, hbefore |-> hstate, via_init |-> h.via_init,
                    event |-> h.event, before |-> devices, unreg |-> e.unreg,
                    upkept |-> e.devices, pool |-> e.pool, steps |-> u.steps]
        /\ reset_at' = IF h.via_init THEN <<>>
                       ELSE IF h.irq = "Reset" /\ hstate.s = "WaitResetComplete" THEN <<millis>>
                       ELSE reset_at
        /\ UNCHANGED <<millis, ndrivers, panicked, held, pool_last, pipeVars, parserVars, kbdVars, pureVars, midiVars>>

StackUpdate ==
    \E enum_ok \in BOOLEAN, mps \in {8, 64} :
        LET h == host_update(hstate, intflag, millis, enum_ok)
            e == handle_event(devices, pool_bits, h.event, mps)
        IN  /\ (h.event # "Ready" => mps = 8)
            /\ (~(next_irq(intflag) = "HostStartOfFrame" /\ hstate.s = "WaitSOF") => enum_ok)
            /\ \E ins \in [1 .. Len(e.devices) -> UNION {InputsFor(e.devices[i], millis, ndrivers) :
                                                          i \in 1 .. Len(e.devices)}] :
                  /\ \A i \in 1 .. Len(e.devices) :
                        ins[i] \in InputsFor(e.devices[i], millis, ndrivers)
                  /\ Update(enum_ok, mps, ins)

StackRaiseIrq == \E f \in IrqsRaised : RaiseIrq(f)

NextStack ==
    \/ AddDriver
    \/ StackRaiseIrq
    \/ StackClock
    \/ StackUpdate

(***************************************************************************)
(* Properties of the stack and of the host controller                      *)
(***************************************************************************)
\* the devices the last update() kept up, by position
Upkept == 1 .. Len(slog.upkept)

\* a transfer of device i failed during the last update()
FailedXfer(i) == \E k \in 1 .. Len(slog.steps[i].xfers) : ~slog.steps[i].xfers[k].ok

\* C7: whenever a transfer issued for a device during update_dev fails, the
\* update leaves the device with its error slot set and with the lifecycle
\* state it had before, whatever that state was.
C7_FailureFreezes ==
    \A i \in Upkept :
        FailedXfer(i) => /\ devices[i].error # NoError
                         /\ devices[i].state = slog.upkept[i].state

\* C8: a device whose error slot is set when update() begins is left exactly
\* as it was by that update (no transfer is issued for it, its driver's run is
\* not called, its state and error stay) unless the update handles a Reset
\* event, which removes it.
C8_ErrorSkips ==
    \A i \in 1 .. Len(slog.before) :
        slog.before[i].error # NoError =>
            IF slog.event = "Reset" THEN devices = <<>>
            ELSE /\ i <= Len(devices)
                 /\ devices[i] = slog.before[i]
                 /\ slog.steps[i].xfers = <<>>
                 /\ ~slog.steps[i].ran

\* an update() found a failed device that is past its wait and in a state
\* from which update_dev would otherwise act, and no Reset came
C8_Witness ==
    /\ slog.event # "Reset"
    /\ \E i \in 1 .. Len(slog.before) :
          /\ slog.before[i].error # NoError
          /\ \/ slog.before[i].state.s \in {"SetAddress", "Running"}
             \/ /\ slog.before[i].state.s = "SetConfig"
                /\ delay_done(millis, slog.before[i].state.until)

\* the devices update() held on entry that have a driver index
Owned == {i \in 1 .. Len(slog.before) : slog.before[i].driver_idx # NoDriver}

\* the unregister calls of the last update() for driver drv and address addr
UnregCalls(drv, addr) ==
    {k \in 1 .. Len(slog.unreg) : slog.unreg[k].driver = drv /\ slog.unreg[k].addr = addr}

\* C9: an update() that handles a Reset event calls unregister, with the
\* device's address, once on the owning driver of every device that has a
\* driver index and on nothing else; afterwards the device list is empty, the
\* pool is the initial pool and the next allocation yields address 1.
C9_ResetCleans ==
    slog.event = "Reset" =>
        /\ Len(slog.unreg) = Cardinality(Owned)
        /\ \A i \in Owned :
              Cardinality(UnregCalls(slog.before[i].driver_idx, slog.before[i].address))
                  = Cardinality({j \in Owned :
                                    /\ slog.before[j].driver_idx = slog.before[i].driver_idx
                                    /\ slog.before[j].address = slog.before[i].address})
        /\ devices = <<>>
        /\ pool_bits = FULL_POOL
        /\ take_next_ret(pool_bits) = 1

\* a Reset arrived while a device with a driver and an address was listed
C9_Witness ==
    /\ slog.event = "Reset"
    /\ \E i \in Owned : slog.before[i].address \in 1 .. MAX_DEVICES

\* C10: an update() of the controller that processes a Detached interrupt, in
\* whatever state, passes through Initialize and returns the Reset event
\* itself (so no Ready event can come between the detach and its Reset),
\* leaving the controller waiting for a device.
C10_DetachResets ==
    slog.irq = "Detached" =>
        /\ slog.via_init
        /\ slog.event = "Reset"
        /\ hstate = HState("WaitForDevice", 0)

\* a detach was processed while the controller was in its Error state
C10_Witness ==
    /\ slog.irq = "Detached"
    /\ slog.hbefore.s = "Error"
    /\ slog.event = "Reset"

\* C11: update() emits Ready only when it processes a Start-of-Frame interrupt
\* in WaitSOF(t) with now >= t, t being 20 ms after the update that processed
\* the bus-reset-complete interrupt; and every control transfer the stack
\* issues for a device comes 20 ms or more after that bus reset completed.
C11_ReadyAfterSettle ==
    /\ slog.event = "Ready" =>
          /\ slog.irq = "HostStartOfFrame"
          /\ slog.hbefore.s = "WaitSOF"
          /\ reset_at # <<>>
          /\ slog.hbefore.until = reset_at[1] + 20
          /\ millis >= slog.hbefore.until
    /\ \A i \in Upkept :
          slog.steps[i].xfers # <<>> => /\ reset_at # <<>>
                                        /\ millis >= reset_at[1] + 20

\* Ready came exactly at the deadline and the new device got its first
\* transfers in the same update()
C11_Witness ==
    /\ slog.event = "Ready"
    /\ reset_at # <<>>
    /\ millis = reset_at[1] + 20
    /\ Len(slog.steps) = 1
    /\ slog.steps[1].xfers # <<>>

\* a step of the chain Initialize -> WaitForDevice -> WaitResetComplete ->
\* WaitSOF -> Ready on its input, or the return to WaitForDevice on a detach
ChainStep ==
    \/ hstate.s = "Initialize" /\ hstate'.s = "WaitForDevice"
    \/ /\ hstate.s = "WaitForDevice" /\ hstate'.s = "WaitResetComplete"
       /\ slog'.irq = "Attached"
    \/ /\ hstate.s = "WaitResetComplete" /\ hstate'.s = "WaitSOF"
       /\ slog'.irq = "Reset"
    \/ /\ hstate.s = "WaitSOF" /\ hstate'.s = "Ready"
       /\ slog'.irq = "HostStartOfFrame" /\ millis >= hstate.until
    \/ /\ hstate'.s = "WaitForDevice"
       /\ slog'.irq = "Detached" /\ slog'.via_init

\* the step from WaitSOF to Error when the enumeration fails
ErrorStep ==
    /\ hstate.s = "WaitSOF" /\ hstate'.s = "Error"
    /\ slog'.irq = "HostStartOfFrame" /\ millis >= hstate.until
    /\ slog'.event = "None"

\* C12 as stated: the controller state changes only by a step of the chain
\* Init -> Disconnected -> BusReset -> BusSettle -> Connected on the step's
\* input, or by the return to Init/Disconnected on a Detached input.
C12_ChainOnly == [][hstate' # hstate => ChainStep]_vars

\* C12 amended: the controller state changes only by a step of the chain on
\* the step's input, by the return to Init/Disconnected on a Detached input,
\* or from BusSettle to Error on a Start-of-Frame at or after the deadline.
C12_ChainOrError == [][hstate' # hstate => (ChainStep \/ ErrorStep)]_vars

\* the controller left WaitSOF for Error on a Start-of-Frame
C12_Witness ==
    /\ hstate.s = "Error"
    /\ slog.hbefore.s = "WaitSOF"
    /\ slog.irq = "HostStartOfFrame"

\* the requests of the calls update_dev made for device i, in order
Reqs(i) == [k \in 1 .. Len(slog.steps[i].xfers) |-> slog.steps[i].xfers[k].req]

\* the addresses of those calls: the endpoint address of a transfer, the
\* address handed out by a take_next
Addrs(i) == [k \in 1 .. Len(slog.steps[i].xfers) |-> slog.steps[i].xfers[k].addr]

\* C13: the first update_dev of a device in SetAddress, with a fresh pool and
\* no failure, issues GET_DESCRIPTOR(Device) to address 0, then takes address
\* 1 from the pool, then issues SET_ADDRESS to address 0, in that order, and
\* leaves the device with address 1 in SetConfig(now + 10 ms); every transfer
\* for an addressed device carries the device's address, 1.
C13_AddressingOrder ==
    \A i \in Upkept :
        /\ ( /\ slog.upkept[i].state.s = "SetAddress"
             /\ slog.upkept[i].error = NoError
             /\ slog.pool = FULL_POOL
             /\ slog.steps[i].res = NoError )
           => /\ Reqs(i) = <<"GetDescriptor:Device", "take_next", "SetAddress">>
              /\ Addrs(i) = <<0, 1, 0>>
              /\ devices[i].address = 1
              /\ devices[i].state = DState("SetConfig", millis + 10, 0)
        /\ slog.upkept[i].state.s # "SetAddress"
           => \A k \in 1 .. Len(slog.steps[i].xfers) : slog.steps[i].xfers[k].addr = 1

\* the accept calls update_dev made for device i, in order
Accepts(i) == slog.steps[i].accepts

\* C14: when update_dev configures a device, the drivers are consulted in
\* registry order from index 0, each accept starts with the parser cursor at
\* 0, and the loop stops at the first driver that accepts: no later driver is
\* consulted and, if the configuration is set, that driver's index is the
\* one recorded. If every driver declines, the device becomes Orphan with no
\* driver index and no SET_CONFIGURATION is issued.
C14_FirstMatchWins ==
    \A i \in Upkept :
        LET acc == Accepts(i)
            n == Len(acc)
        IN  /\ \A k \in 1 .. n : acc[k].driver = k - 1 /\ acc[k].pos = 0
            /\ \A k \in 1 .. (n - 1) : ~acc[k].match
            /\ (n > 0 /\ acc[n].match /\ slog.steps[i].res = NoError)
                  => /\ devices[i].driver_idx = acc[n].driver
                     /\ devices[i].state.s = "SetInterface"
            /\ (devices[i].driver_idx # slog.upkept[i].driver_idx)
                  => n > 0 /\ acc[n].match /\ devices[i].driver_idx = acc[n].driver
            /\ ( /\ slog.upkept[i].state.s = "SetConfig"
                 /\ slog.steps[i].res = NoError
                 /\ slog.steps[i].xfers # <<>>
                 /\ \A k \in 1 .. n : ~acc[k].match )
                  => /\ n = ndrivers
                     /\ devices[i].state.s = "Orphan"
                     /\ devices[i].driver_idx = NoDriver
                     /\ \A k \in 1 .. Len(Reqs(i)) : Reqs(i)[k] # "SetConfiguration"

\* the first driver declined, having moved the cursor well into the
\* descriptors, the second accepted and got the device, and a third driver
\* was registered but not consulted
C14_Witness ==
    /\ ndrivers >= 3
    /\ Len(slog.steps) = 1
    /\ Len(Accepts(1)) = 2
    /\ Accepts(1)[2].match
    /\ devices[1].driver_idx = 1
    /\ devices[1].state.s = "SetInterface"

\* C15: in every state of the stack, a device's address is nonzero if and
\* only if its lifecycle state is not SetAddress; this includes the devices
\* whose addressing failed.
C15_AddressIffAddressed ==
    \A i \in 1 .. Len(devices) :
        (devices[i].address # 0) <=> (devices[i].state.s # "SetAddress")

\* a device whose SET_ADDRESS failed: it kept address 0 and stayed in SetAddress
C15_Witness ==
    \E i \in 1 .. Len(devices) :
        /\ devices[i].error.kind = "SetAddress"
        /\ devices[i].address = 0
        /\ devices[i].state.s = "SetAddress"

\* C16: in every state of the stack, a device in Running has a driver index,
\* and that index is the index of a driver in the registry.
C16_RunningHasDriver ==
    \A i \in 1 .. Len(devices) :
        devices[i].state.s = "Running"
            => /\ devices[i].driver_idx # NoDriver
               /\ devices[i].driver_idx \in 0 .. (ndrivers - 1)

\* a device is in Running under the second driver of the registry
C16_Witness ==
    \E i \in 1 .. Len(devices) :
        /\ devices[i].state.s = "Running"
        /\ devices[i].driver_idx = 1

\* C17: once get_device_descriptor has read a device's descriptor, and in
\* every later state, the stored control max packet size is at most the host
\* max packet size the device was created with and at most the descriptor's
\* bMaxPacketSize0: it is bMaxPacketSize0 if that is the smaller of the two,
\* and the size the device was created with otherwise.
C17_PacketSizeBound ==
    \A i \in 1 .. Len(devices) :
        devices[i].desc_bmps # <<>>
            => /\ devices[i].max_packet_len <= devices[i].created_with
               /\ devices[i].max_packet_len <= devices[i].desc_bmps[1]
               /\ devices[i].max_packet_len =
                     IF devices[i].desc_bmps[1] < devices[i].created_with
                     THEN devices[i].desc_bmps[1]
                     ELSE devices[i].created_with

\* a device created with 64 whose descriptor said 8 is in Running with 8
C17_Witness ==
    \E i \in 1 .. Len(devices) :
        /\ devices[i].created_with = 64
        /\ devices[i].desc_bmps = <<8>>
        /\ devices[i].max_packet_len = 8
        /\ devices[i].state.s = "Running"

\* C18: an update_dev of a device in SetConfig(t) or SetInterface(iface, t)
\* while now < t issues no transfer, consults no driver, and leaves the
\* device (state, address, error), its driver index and the address pool as
\* they were; this holds at every such call, however many are made.
C18_WaitIsIdle ==
    \A i \in Upkept :
        ( /\ slog.upkept[i].state.s \in {"SetConfig", "SetInterface"}
          /\ millis < slog.upkept[i].state.until )
            => /\ slog.steps[i].xfers = <<>>
               /\ slog.steps[i].accepts = <<>>
               /\ ~slog.steps[i].ran
               /\ slog.steps[i].res = NoError
               /\ devices[i] = slog.upkept[i]
               /\ pool_bits = slog.pool

\* an update() came while a healthy device waited in SetInterface
C18_Witness ==
    /\ Len(slog.upkept) = 1
    /\ slog.upkept[1].state.s = "SetInterface"
    /\ slog.upkept[1].error = NoError
    /\ millis < slog.upkept[1].state.until

(***************************************************************************)
(* Properties of the pipe engine                                           *)
(***************************************************************************)
RECURSIVE SumSeq(_)
SumSeq(q) == IF q = <<>> THEN 0 ELSE Head(q) + SumSeq(Tail(q))

\* C3 as stated: after a successful IN or OUT the endpoint's toggle of that
\* direction is the complement of its value when the token was dispatched, and
\* after SETUP both toggles are 1.
C3_ToggleComplement ==
    LET l == phist.last
    IN  /\ (l.token = "In" /\ l.res.status = "ok") => l.in1 = ~l.in0
        /\ (l.token = "Out" /\ l.res.status = "ok") => l.out1 = ~l.out0
        /\ l.token = "Setup" => (l.in1 /\ l.out1)

\* C3 amended: after a successful IN or OUT the toggle of that direction is the
\* complement of its value at dispatch when an even number of data-toggle
\* errors was polled before completion and equal to it when that number is odd
\* (each such error flips it once more); the other direction's toggle is
\* unchanged; after SETUP both toggles are 1.
C3_ToggleParity ==
    LET l == phist.last
    IN  /\ (l.token = "In" /\ l.res.status = "ok")
            => /\ l.in1 = (IF l.dtgl_errs = 0 THEN ~l.in0 ELSE l.in0)
               /\ l.out1 = l.out0
        /\ (l.token = "Out" /\ l.res.status = "ok")
            => /\ l.out1 = (IF l.dtgl_errs = 0 THEN ~l.out0 ELSE l.out0)
               /\ l.in1 = l.in0
        /\ l.token = "Setup" => (l.in1 /\ l.out1)

\* an OUT completed after one data-toggle error
C3_Witness ==
    /\ phist.last.token = "Out"
    /\ phist.last.res.status = "ok"
    /\ phist.last.dtgl_errs = 1
    /\ phist.last.out1 = phist.last.out0

\* C4: an IN transfer that receives a packet shorter than the endpoint's
\* max_packet_size ends at that packet and returns success with the sum of the
\* byte counts of the packets received.
C4_ShortPacketEnds ==
    \A i \in 1 .. Len(phist.pkts) :
        phist.pkts[i] < ep.max_packet_size
            => /\ i = Len(phist.pkts)
               /\ phist.in_res.done
               /\ phist.in_res.res = Ok(SumSeq(phist.pkts))

\* C19: in_transfer never takes more bytes than buffer.len(): the call never
\* panics, a length it returns is at most buffer.len(), and once the byte
\* counts reported by the hardware add up to more than buffer.len() the call
\* has returned an error.
C19_NeverPastBuffer ==
    /\ pres.status # "panic"
    /\ phist.in_res.res.status # "panic"
    /\ phist.in_res.res.status = "ok" => phist.in_res.res.len <= phist.req.buflen
    /\ (phist.req.op = "in" /\ SumSeq(phist.pkts) > phist.req.buflen)
          => phist.in_res.res.status = "err"

StageRank(stage) == CASE stage = "setup" -> 1 [] stage = "data" -> 2 [] OTHER -> 3
DataToken(dir) == IF dir = "DeviceToHost" THEN "In" ELSE "Out"
OppositeToken(token) == IF token = "In" THEN "Out" ELSE "In"

\* C5: a control transfer issues SETUP first, then the DATA-stage packets (only
\* with a non-empty buffer; IN for Device-to-Host, OUT for Host-to-Device), then
\* one zero-length STATUS packet in the opposite direction; once a stage has
\* returned an error the call has returned that error and no token of a later
\* stage was issued.
C5_ControlOrder ==
    LET log == phist.log
        n == Len(log)
        r == phist.req
    IN  r.op = "control" =>
          /\ n >= 1
          /\ log[1] = [token |-> "Setup", stage |-> "setup"]
          /\ \A i \in 2 .. n : log[i].stage \in {"data", "status"}
          /\ \A i, j \in 1 .. n : i < j => StageRank(log[i].stage) <= StageRank(log[j].stage)
          /\ Cardinality({i \in 1 .. n : log[i].stage = "status"}) <= 1
          /\ \A i \in 1 .. n :
                /\ log[i].stage = "data"
                     => (log[i].token = DataToken(r.direction) /\ r.hasbuf /\ r.buflen > 0)
                /\ log[i].stage = "status"
                     => /\ log[i].token = OppositeToken(DataToken(r.direction))
                        /\ (r.hasbuf /\ r.buflen > 0) => \E k \in 1 .. i : log[k].stage = "data"
          /\ call.stage = "status" => desc.byte_count = 0
          /\ phist.first_err # NoErr
                => /\ call.op = "none"
                   /\ pres = phist.first_err.res
                   /\ log[n].stage = phist.first_err.stage
          /\ (call.op = "none" /\ pres.status = "ok") => log[n].stage = "status"

\* a Device-to-Host control transfer has returned success after SETUP, two IN
\* packets and the OUT status packet
C5_Witness ==
    /\ phist.req.op = "control"
    /\ call.op = "none"
    /\ pres.status = "ok"
    /\ [i \in 1 .. Len(phist.log) |-> phist.log[i].token] = <<"Setup", "In", "In", "Out">>

\* C6: a control transfer with wLength = 0 issues no DATA-stage token, and its
\* STATUS stage uses an IN token, whatever the direction bit of bmRequestType.
C6_NoDataStatusIn ==
    (phist.req.op = "control" /\ phist.req.buflen = 0)
        => \A i \in 1 .. Len(phist.log) :
              /\ phist.log[i].stage # "data"
              /\ phist.log[i].stage = "status" => phist.log[i].token = "In"

(***************************************************************************)
(* DescriptorParser (parser.rs) and the audio classifier (class/audio.rs)  *)
(***************************************************************************)

\* most descriptors of one buffer
MaxDescs == 3

\* DescriptorType codes the parser matches on that descriptor.rs does not list
CLASS_INTERFACE == 36
CLASS_ENDPOINT == 37
INTERFACE_ASSOCIATION == 11

\* class codes (parser.rs calls the enum Class)
Audio == 1
Hid == 3
DeviceClassCodes ==
    (0 .. 3) \cup (5 .. 11) \cup (13 .. 18) \cup {48, 220, 224, 239, 254, 255}

\* Option<T>: None is <<>>, Some(x) is <<x>>
None == <<>>
Some(x) == <<x>>

\* DescriptorType::from_repr
descriptor_type(b) ==
    CASE b = 1 -> "Device"
      [] b = 2 -> "Configuration"
      [] b = 3 -> "String"
      [] b = 4 -> "Interface"
      [] b = 5 -> "Endpoint"
      [] b = 6 -> "DeviceQualifier"
      [] b = 7 -> "OtherSpeed"
      [] b = 8 -> "InterfacePower"
      [] b = INTERFACE_ASSOCIATION -> "InterfaceAssociation"
      [] b = CLASS_INTERFACE -> "ClassInterface"
      [] b = CLASS_ENDPOINT -> "ClassEndpoint"
      [] OTHER -> "None"

\* Class::from_repr
class_from_repr(c) == IF c \in DeviceClassCodes THEN Some(c) ELSE None

\* AudioSubclass::from_repr
audio_subclass(s) ==
    CASE s = 1 -> "AudioControl"
      [] s = 2 -> "AudioStream"
      [] s = 3 -> "MidiStream"
      [] OTHER -> "None"

\* ACInterfaceSubtype::from_repr and the arm it selects
ac_interface(b) ==
    CASE b = 1 -> "ACInterfaceHeader"
      [] b = 2 -> "ACInputTerminal"
      [] b = 3 -> "ACOutputTerminal"
      [] b = 6 -> "ACFeatureUnit"
      [] b = 10 -> "ACClockSource"
      [] b = 11 -> "ACClockSelector"
      [] OTHER -> "Unknown"

as_interface(b) ==
    CASE b = 1 -> "ASInterface"
      [] b = 2 -> "ASFormatType1"
      [] OTHER -> "Unknown"

ms_interface(b) ==
    CASE b = 1 -> "MSInterface"
      [] b = 3 -> "MSOutJack"
      [] b = 2 -> "MSInJack"
      [] OTHER -> "Unknown"

\* audio::parse: the AudioDescriptorRef variant chosen for the slice
audio_parse(subclass, desc_type, slice) ==
    IF subclass = None THEN "Unknown"
    ELSE IF Len(slice) < 3 THEN "Unknown"
    ELSE LET sc == audio_subclass(subclass[1]) IN
         IF sc = "None" THEN "Unknown"
         ELSE CASE desc_type = "ClassInterface" ->
                      (CASE sc = "AudioControl" -> ac_interface(slice[3])
                         [] sc = "AudioStream" -> as_interface(slice[3])
                         [] sc = "MidiStream" -> ms_interface(slice[3]))
                [] desc_type = "ClassEndpoint" ->
                      (CASE sc = "AudioStream" ->
                                IF slice[3] = 1 THEN "ASEndpoint" ELSE "Unknown"
                         [] sc = "MidiStream" ->
                                IF slice[3] = 1 THEN "MSEndpoint" ELSE "Unknown"
                         [] OTHER -> "Unknown")
                [] OTHER -> "Unknown"

\* what next() returns: the DescriptorRef variant (and the audio variant), and
\* the bytes it covers
NoDesc == [kind |-> "None", audio |-> "-", at |-> 0, len |-> 0]
Yield(kind, audio, at, len) == [kind |-> kind, audio |-> audio, at |-> at, len |-> len]

\* DescriptorParser::new
parser_new(buf) == [buf |-> buf, pos |-> 0, class |-> None, subclass |-> None]

\* let desc_next = self.pos + desc_len
desc_next_header(pos, desc_len) == pos + 2
desc_next(pos, desc_len) == pos + desc_len

\* the Interface arm: class and subclass follow the descriptor only when both
\* fields are non-zero
track_class_always(p, cls, sub) == [p EXCEPT !.class = class_from_repr(cls), !.subclass = Some(sub)]
track_class(p, cls, sub) ==
    IF cls # 0 /\ sub # 0
    THEN [p EXCEPT !.class = class_from_repr(cls), !.subclass = Some(sub)]
    ELSE p

\* the truncation test: a descriptor that runs past the buffer ends the iteration
runs_past_never(buf, pos, desc_len) == FALSE
runs_past(buf, pos, desc_len) == pos + desc_len > Len(buf)

\* DescriptorParser::next.  ub holds the values of b_interface_class and
\* b_interface_sub_class when the InterfaceDescriptor view reaches past the
\* buffer (a read through a reference to bytes that are not there).
parser_next(p, ub) ==
    LET buf == p.buf
        pos == p.pos
        none == [p |-> p, ret |-> NoDesc, panic |-> FALSE]
        panic == [p |-> p, ret |-> NoDesc, panic |-> TRUE]
    IN  IF pos >= Len(buf) THEN none
        ELSE LET desc_len == buf[pos + 1] IN
             IF desc_len = 0 THEN none
             ELSE IF runs_past(buf, pos, desc_len) THEN none
             ELSE IF pos + 1 >= Len(buf) THEN panic      \* buf[pos + 1] out of bounds
             ELSE
             LET nxt == desc_next(pos, desc_len)
                 desc_type == descriptor_type(buf[pos + 2])
                 slice == SubSeq(buf, pos + 1, nxt)
                 rd(o) == IF pos + o < Len(buf) THEN buf[pos + o + 1] ELSE ub[o]
                 adv(q) == [q EXCEPT !.pos = nxt]
                 ok(q, kind, audio) ==
                     [p |-> adv(q), ret |-> Yield(kind, audio, pos, desc_len), panic |-> FALSE]
             IN  CASE desc_type \in {"Device", "Configuration", "Endpoint",
                                     "InterfaceAssociation"} -> ok(p, desc_type, "-")
                   [] desc_type = "String" ->
                         IF desc_len < 2 THEN panic      \* desc_len - 2 underflows
                         ELSE ok(p, "String", "-")
                   [] desc_type = "Interface" ->
                         ok(track_class(p, rd(5), rd(6)), "Interface", "-")
                   [] desc_type \in {"ClassInterface", "ClassEndpoint"} ->
                         IF p.class = Some(Audio)
                         THEN ok(p, "Audio", audio_parse(p.subclass, desc_type, slice))
                         ELSE ok(p, IF desc_type = "ClassInterface"
                                    THEN "UnknownClassInterface"
                                    ELSE "UnknownClassEndpoint", "-")
                   [] OTHER -> ok(p, "Unknown", "-")

\* DescriptorParser::rewind
parser_rewind(p) == [p EXCEPT !.pos = 0]

\* the descriptor kinds yielded as a reference to a packed struct laid over the
\* bytes at the cursor, and the size of that struct
TypedKinds == {"Device", "Configuration", "Interface", "Endpoint"}
size_of(kind) ==
    CASE kind = "Device" -> 18
      [] kind = "Configuration" -> 9
      [] kind = "Interface" -> 9
      [] kind = "Endpoint" -> 7

\* ---- the buffers the parser is run on ----
\* descriptors as a device would report them, and malformed pieces
Cfg(n) == [t |-> "cfg", n |-> n, b |-> <<>>]
If(num, alt, neps, cls, sub) ==
    [t |-> "if", n |-> neps, b |-> <<9, 4, num, alt, neps, cls, sub, 0, 0>>]
Ep == [t |-> "ep", n |-> 0, b |-> <<7, 5, 129, 3, 8, 0, 10>>]
CsIf(subtype) == [t |-> "cs_if", n |-> subtype, b |-> <<7, CLASS_INTERFACE, subtype, 0, 1, 7, 0>>]
CsEp == [t |-> "cs_ep", n |-> 1, b |-> <<5, CLASS_ENDPOINT, 1, 1, 1>>]
HidDesc == [t |-> "hid", n |-> 0, b |-> <<9, 33, 17, 1, 0, 1, 34, 63, 0>>]
Raw(b) == [t |-> "raw", n |-> 0, b |-> b]

Items ==
    { Cfg(1), Cfg(2),
      If(0, 0, 1, Hid, 1), If(0, 0, 0, Audio, 3), If(1, 0, 0, Hid, 0), If(0, 1, 0, Hid, 1),
      Ep, CsIf(1), CsEp, HidDesc,
      Raw(<<0>>), Raw(<<1>>), Raw(<<9, 4, 0>>), Raw(<<2, 4>>) }

\* the bytes of one descriptor; a configuration descriptor carries wTotalLength
Bytes(item, total) ==
    IF item.t = "cfg"
    THEN <<9, 2, total % 256, total \div 256, item.n, 1, 0, 128, 50>>
    ELSE item.b

RECURSIVE TotalLen(_)
TotalLen(items) ==
    IF items = <<>> THEN 0
    ELSE Len(Bytes(Head(items), 0)) + TotalLen(Tail(items))

RECURSIVE Concat(_, _)
Concat(items, total) ==
    IF items = <<>> THEN <<>>
    ELSE Bytes(Head(items), total) \o Concat(Tail(items), total)

Build(items) == Concat(items, TotalLen(items))

\* values a read past the end of the buffer can produce
UbBytes == {0, Audio, Hid}
UbReads == [{5, 6} -> UbBytes]
\* no read is open unless an interface descriptor is cut short by the end of the buffer
UbFor(p) ==
    IF /\ p.pos + 1 < Len(p.buf)
       /\ descriptor_type(p.buf[p.pos + 2]) = "Interface"
       /\ p.pos + 6 >= Len(p.buf)
    THEN UbReads
    ELSE {[o \in {5, 6} |-> 0]}

ParserInit ==
    \E k \in 0 .. MaxDescs : \E items \in [1 .. k -> Items] :
        /\ parser = parser_new(Build(items))
        /\ plog = [op |-> "new", made |-> items, yields |-> <<>>, ended |-> "no", after |-> 0,
                   rewound |-> FALSE, last |-> NoDesc, before |-> parser_new(Build(items))]

\* one call of next()
ParserNext ==
    /\ plog.ended # "panic"
    /\ plog.after < 2
    /\ \E ub \in UbFor(parser) :
        LET r == parser_next(parser, ub) IN
        /\ parser' = r.p
        /\ plog' = [plog EXCEPT
                !.op = "next",
                !.yields = IF r.ret = NoDesc THEN @ ELSE Append(@, r.ret),
                !.ended = IF r.panic THEN "panic"
                          ELSE IF r.ret = NoDesc THEN "none" ELSE @,
                !.after = IF plog.ended = "none" THEN @ + 1 ELSE @,
                !.last = r.ret,
                !.before = parser]
    /\ UNCHANGED notParser

\* one call of rewind(), starting a new iteration
ParserRewind ==
    /\ plog.ended # "panic"
    /\ ~plog.rewound
    /\ parser.pos > 0
    /\ parser' = parser_rewind(parser)
    /\ plog' = [plog EXCEPT !.op = "rewind", !.yields = <<>>, !.ended = "no", !.after = 0,
                            !.rewound = TRUE, !.last = NoDesc, !.before = parser]
    /\ UNCHANGED notParser

NextParser ==
    \/ ParserNext
    \/ ParserRewind

\* a parser that was never given a buffer, for the other specifications
ParserAtRest ==
    /\ parser = parser_new(<<>>)
    /\ plog = [op |-> "new", made |-> <<>>, yields |-> <<>>, ended |-> "no", after |-> 0,
               rewound |-> FALSE, last |-> NoDesc, before |-> parser_new(<<>>)]

(***************************************************************************)
(* BootKeyboard (driver/keyboard.rs): the device slots of the driver       *)
(***************************************************************************)

\* How many total devices this driver can support
KBD_MAX_DEVICES == 32

\* addresses the stack registers keyboards under
KbdAddrs == 1 .. 5

\* an empty slot (Option::None) of BootKeyboard::devices
NoSlot == 0

\* BootKeyboard::new: devices is Vec::new(), a vector of length 0
kbd_new == <<>>

\* the first slot that satisfies the predicate of iter_mut().find(..), 0 if none
first_slot(devs, v) ==
    IF \E i \in 1 .. Len(devs) : devs[i] = v
    THEN CHOOSE i \in 1 .. Len(devs) : devs[i] = v /\ \A j \in 1 .. (i - 1) : devs[j] # v
    ELSE 0

\* Driver::register: take the first empty slot, or fail
register(devs, addr) ==
    LET i == first_slot(devs, NoSlot) IN
    IF i # 0
    THEN [devs |-> [devs EXCEPT ![i] = addr], ret |-> "Ok"]
    ELSE [devs |-> devs, ret |-> "Err"]

\* Driver::unregister: empty the first slot that holds the address
unregister(devs, addr) ==
    LET i == first_slot(devs, addr) IN
    IF i # 0 THEN [devs EXCEPT ![i] = NoSlot] ELSE devs

\* the number of occupied slots (the fold of the tests)
count(devs) == Cardinality({i \in 1 .. Len(devs) : devs[i] # NoSlot})

KbdInit ==
    /\ kbd = kbd_new
    /\ klog = [op |-> "new", addr |-> 0, ret |-> "-", count_before |-> 0, asked |-> {}]

KbdRegister ==
    \E a \in KbdAddrs :
        LET r == register(kbd, a) IN
        /\ kbd' = r.devs
        /\ klog' = [op |-> "register", addr |-> a, ret |-> r.ret,
                    count_before |-> count(kbd), asked |-> klog.asked \cup {a}]
        /\ UNCHANGED notKbd

KbdUnregister ==
    \E a \in KbdAddrs :
        /\ kbd' = unregister(kbd, a)
        /\ klog' = [op |-> "unregister", addr |-> a, ret |-> "-",
                    count_before |-> count(kbd), asked |-> klog.asked \ {a}]
        /\ UNCHANGED notKbd

NextKbd ==
    \/ KbdRegister
    \/ KbdUnregister

(***************************************************************************)
(* PipeTable::pipe_for (src/src/atsamd/pipe.rs, pipe/ctrl_pipe.rs)         *)
(***************************************************************************)
\* the largest max_packet_size an endpoint is configured with
MaxPacketSize == 1024

\* endpoint addresses handed to pipe_for: the control endpoint, IN and OUT
\* endpoints (bit 7 is the direction), the highest endpoint number
EpAddresses == {0, 1, 2, 15, 128, 129, 143}

\* the packet-size classes of the PCKSIZE.SIZE field, as byte counts
SizeClasses == {8, 16, 32, 64, 128, 256, 512, 1024}

\* Bits 3..0 are the endpoint number
ENDPOINT_NUMBER_MASK == 15

\* EpAddress::absolute: self.0 & ENDPOINT_NUMBER_MASK
absolute(ep_addr) == ep_addr % (ENDPOINT_NUMBER_MASK + 1)

\* PEpNumW::bits and PEpNumR: POS and MASK of the endpoint-number field
PEPNUM_POS == 8
PEPNUM_MASK == 15

\* PDAddrW::bits and PDAddrR: POS and MASK of the device-address field
PDADDR_POS == 0
PDADDR_MASK == 63

\* the field of width mask + 1 at bit pos of a register word
field(bits, pos, mask) == (bits \div (2 ^ pos)) % (mask + 1)

\* self.w.bits &= !(MASK << POS); self.w.bits |= (v & MASK) << POS
set_field(bits, pos, mask, v) ==
    bits - field(bits, pos, mask) * (2 ^ pos) + (v % (mask + 1)) * (2 ^ pos)

\* PDAddrW::set_addr, PEpNumW::set_epnum
set_addr(bits, v) == set_field(bits, PDADDR_POS, PDADDR_MASK, v)
set_epnum(bits, v) == set_field(bits, PEPNUM_POS, PEPNUM_MASK, v)

\* R::pdaddr().addr(), R::pepnum().epnum()
pdaddr(bits) == field(bits, PDADDR_POS, PDADDR_MASK)
pepnum(bits) == field(bits, PEPNUM_POS, PEPNUM_MASK)

\* the chain of comparisons that picks the PCKSIZE.SIZE class
pcksize(mps) ==
    IF mps >= 1023 THEN 1024
    ELSE IF mps >= 512 THEN 512
    ELSE IF mps >= 256 THEN 256
    ELSE IF mps >= 128 THEN 128
    ELSE IF mps >= 64 THEN 64
    ELSE IF mps >= 32 THEN 32
    ELSE IF mps >= 16 THEN 16
    ELSE 8

\* PipeTable::pipe_for: the pipe chosen, and the descriptor words written into
\* its bank 0 (ctrl_pipe starts from the word the descriptor held)
pipe_for(ctrl, e) ==
    [pipe |-> IF absolute(e.ep_addr) = 0 THEN 0 ELSE 1,
     ctrl_pipe |-> set_epnum(set_addr(ctrl, e.dev_addr), e.ep_addr),
     size |-> pcksize(e.mps)]

\* the endpoints handed to pipe_for: every packet size on the control endpoint
\* of one device, and every device address with each endpoint address
PipeForInputs ==
    [dev_addr : {1}, ep_addr : {0}, mps : 1 .. MaxPacketSize]
        \cup [dev_addr : 0 .. MAX_DEVICES, ep_addr : EpAddresses, mps : {8, 64}]

\* both descriptors are zeroed by PipeTable::new
NoPipeFor == [e |-> [dev_addr |-> 0, ep_addr |-> 0, mps |-> 8], done |-> FALSE,
              pipe |-> 0, ctrl_pipe |-> 0, size |-> 0]

PipeForInit ==
    /\ \E e \in PipeForInputs : pfor = [NoPipeFor EXCEPT !.e = e]
    /\ rtype = [bits |-> 0, op |-> "none", arg |-> 0, before |-> 0]

PipeFor ==
    LET r == pipe_for(pfor.ctrl_pipe, pfor.e) IN
    /\ ~pfor.done
    /\ pfor' = [pfor EXCEPT !.done = TRUE, !.pipe = r.pipe,
                            !.ctrl_pipe = r.ctrl_pipe, !.size = r.size]
    /\ UNCHANGED <<rtype, notPure>>

NextPipeFor == PipeFor

(***************************************************************************)
(* RequestType (src/src/control.rs)                                        *)
(***************************************************************************)
\* the width of the bmRequestType byte
U8 == 256

\* a & b on u8 values
RECURSIVE BitAnd(_, _)
BitAnd(a, b) ==
    IF a = 0 \/ b = 0 THEN 0
    ELSE (a % 2) * (b % 2) + 2 * BitAnd(a \div 2, b \div 2)

\* a | b and !a on u8 values
BitOr(a, b) == a + b - BitAnd(a, b)
BitNot(a) == (U8 - 1) - a

\* v << pos on a u8
Shl(v, pos) == (v * (2 ^ pos)) % U8

\* enum RequestDirection, RequestKind, RequestRecipient (repr(u8))
HostToDevice == 0
DeviceToHost == 128
RequestDirection == {HostToDevice, DeviceToHost}

Standard == 0
Class == 32
Vendor == 64
RequestKind == {Standard, Class, Vendor}

RecipientDevice == 0
RecipientInterface == 1
RecipientEndpoint == 2
RecipientOther == 3
RequestRecipient == {RecipientDevice, RecipientInterface, RecipientEndpoint, RecipientOther}

\* POS and MASK of the three fields
RECIPIENT_POS == 0
RECIPIENT_MASK == 31
KIND_POS == 5
KIND_MASK == 3
DIRECTION_POS == 7
DIRECTION_MASK == 1

\* strum's from_repr: the variant with that discriminant, if there is one
from_repr(variants, v) == IF v \in variants THEN Some(v) ELSE None

\* the getters: from_repr(self.0 & (MASK << POS))
RequestType_recipient(bits) ==
    from_repr(RequestRecipient, BitAnd(bits, Shl(RECIPIENT_MASK, RECIPIENT_POS)))
RequestType_kind(bits) ==
    from_repr(RequestKind, BitAnd(bits, Shl(KIND_MASK, KIND_POS)))
RequestType_direction(bits) ==
    from_repr(RequestDirection, BitAnd(bits, Shl(DIRECTION_MASK, DIRECTION_POS)))

\* the body shared by the setters:
\* self.0 &= !(MASK << POS); self.0 |= v as u8 & MASK
set_bits(bits, pos, mask, v) ==
    BitOr(BitAnd(bits, BitNot(Shl(mask, pos))), BitAnd(v, mask))

RequestType_set_recipient(bits, v) == set_bits(bits, RECIPIENT_POS, RECIPIENT_MASK, v)
RequestType_set_kind(bits, v) == set_bits(bits, KIND_POS, KIND_MASK, v)
RequestType_set_direction(bits, v) == set_bits(bits, DIRECTION_POS, DIRECTION_MASK, v)

\* From<(RequestDirection, RequestKind, RequestRecipient)>
RequestType_from(d, k, r) == BitOr(BitOr(d, k), r)

NoRequestType == [bits |-> 0, op |-> "none", arg |-> 0, before |-> 0]

\* no pipe_for call and no RequestType, for the other specifications
PureAtRest ==
    /\ pfor = NoPipeFor
    /\ rtype = NoRequestType

RequestTypeInit ==
    /\ \E d \in RequestDirection, k \in RequestKind, r \in RequestRecipient :
          rtype = [bits |-> RequestType_from(d, k, r), op |-> "from", arg |-> 0,
                   before |-> 0]
    /\ pfor = NoPipeFor

SetRecipient ==
    \E v \in RequestRecipient :
        /\ rtype.op # "none"
        /\ rtype' = [bits |-> RequestType_set_recipient(rtype.bits, v),
                     op |-> "set_recipient", arg |-> v, before |-> rtype.bits]
        /\ UNCHANGED <<pfor, notPure>>

SetKind ==
    \E v \in RequestKind :
        /\ rtype.op # "none"
        /\ rtype' = [bits |-> RequestType_set_kind(rtype.bits, v),
                     op |-> "set_kind", arg |-> v, before |-> rtype.bits]
        /\ UNCHANGED <<pfor, notPure>>

SetDirection ==
    \E v \in RequestDirection :
        /\ rtype.op # "none"
        /\ rtype' = [bits |-> RequestType_set_direction(rtype.bits, v),
                     op |-> "set_direction", arg |-> v, before |-> rtype.bits]
        /\ UNCHANGED <<pfor, notPure>>

NextRequestType ==
    \/ SetRecipient
    \/ SetKind
    \/ SetDirection

(***************************************************************************)
(* UsbMidiDriver (src/src/driver/midi.rs)                                  *)
(***************************************************************************)
\* How many total devices this driver can support
MIDI_MAX_DEVICES == 16

\* Max number of endpoints per device
MAX_ENDPOINTS_PER_DEV == 2

\* Max number of jacks per endpoint
MAX_JACKS_PER_ENDPOINT == 4

MAX_ENDPOINTS == MIDI_MAX_DEVICES * MAX_ENDPOINTS_PER_DEV

\* the port ids the registry hands out before the model stops registering
MaxPortId == 10

\* addresses the stack registers MIDI devices under
MidiAddrs == {1, 2}

\* FnvIndexMap::new, and the map with one key set or removed
EmptyMap == [x \in {} |-> 0]
Put(map, k, v) == [x \in DOMAIN map \cup {k} |-> IF x = k THEN v ELSE map[x]]
Drop(map, k) == [x \in DOMAIN map \ {k} |-> map[x]]

\* FnvIndexMap::insert: replaces the value of a key the map holds, fails
\* (leaving the map as it was) when the key is new and the map is full
insert(map, k, v, cap) ==
    IF k \in DOMAIN map \/ Cardinality(DOMAIN map) < cap
    THEN Put(map, k, v)
    ELSE map

\* map_entry_mut: the entry of the key, inserted from the constructor when
\* the map does not hold the key; None when it cannot be inserted
map_entry_mut(map, k, new, cap) ==
    IF k \in DOMAIN map THEN [map |-> map, some |-> TRUE]
    ELSE IF Cardinality(DOMAIN map) < cap THEN [map |-> Put(map, k, new), some |-> TRUE]
    ELSE [map |-> map, some |-> FALSE]

\* EpAddress::direction: bit 7 of the endpoint address
ep_direction(ep_addr) == IF ep_addr >= 128 THEN "In" ELSE "Out"

\* UsbMidiDriver::new
midi_new == [device_endpoints |-> EmptyMap, ep_jack_port |-> EmptyMap, next_port_id |-> 0]

\* register_port: a port is acquired from the registry under the next port
\* id, and its handle is filed under the jack id in the endpoint's jack map;
\* the result of that insert is dropped
register_port(st, dev_addr, ep_addr, jack_id) ==
    LET handle == st.m.next_port_id
        e == map_entry_mut(st.m.ep_jack_port, <<dev_addr, ep_addr>>, EmptyMap, MAX_ENDPOINTS)
        jacks == IF e.some
                 THEN [e.map EXCEPT ![<<dev_addr, ep_addr>>] =
                          insert(@, jack_id, handle, MAX_JACKS_PER_ENDPOINT)]
                 ELSE e.map
    IN  [m |-> [st.m EXCEPT !.next_port_id = @ + 1, !.ep_jack_port = jacks],
         got |-> st.got \cup {handle}]

\* register_ep: the endpoint joins the device's list unless it is there
\* already or the list is full
register_ep(m, addr, new_ep) ==
    LET e == map_entry_mut(m.device_endpoints, addr, <<>>, MIDI_MAX_DEVICES) IN
    IF e.some
    THEN LET endpoints == e.map[addr] IN
         IF /\ \A i \in 1 .. Len(endpoints) : endpoints[i] # new_ep
            /\ Len(endpoints) < MAX_ENDPOINTS_PER_DEV
         THEN [m EXCEPT !.device_endpoints = [e.map EXCEPT ![addr] = Append(endpoints, new_ep)]]
         ELSE [m EXCEPT !.device_endpoints = e.map]
    ELSE m

\* phase 1 of register: each audio endpoint of the MIDI interface is
\* registered, in descriptor order
RECURSIVE register_eps(_, _, _)
register_eps(m, addr, eps) ==
    IF eps = <<>> THEN m
    ELSE register_eps(register_ep(m, addr, Head(eps)), addr, Tail(eps))

\* ep_in / ep_out of register: the first endpoint of the direction, if any
first_ep(eps, dir) ==
    LET is == {i \in 1 .. Len(eps) : ep_direction(eps[i]) = dir} IN
    IF is = {} THEN None
    ELSE Some(eps[CHOOSE i \in is : \A j \in is : i <= j])

\* phase 3 of register: a port for each embedded jack whose endpoint is known
RECURSIVE register_jacks(_, _, _, _, _)
register_jacks(st, addr, ep_in, ep_out, jacks) ==
    IF jacks = <<>> THEN st
    ELSE LET j == Head(jacks)
             jack_ep == IF j.type = "MSOutJack" THEN ep_out ELSE ep_in
             st1 == IF j.embedded /\ jack_ep # None
                    THEN register_port(st, addr, jack_ep[1], j.id)
                    ELSE st
         IN  register_jacks(st1, addr, ep_in, ep_out, Tail(jacks))

\* Driver::register over a configuration whose descriptors hold the MIDI
\* interface (or none), its audio endpoints and its jacks, in order
midi_register(m, addr, d, set_configuration_ok) ==
    LET eps == IF d.midi_interface THEN d.eps ELSE <<>>
        m1 == register_eps(m, addr, eps)
        ep_in == first_ep(eps, "In")
        ep_out == first_ep(eps, "Out")
        dev_count == Cardinality(DOMAIN m.device_endpoints)
    IN  IF d.midi_interface /\ d.config /\ ~set_configuration_ok
        THEN [m |-> m1, got |-> {}, ret |-> "Err"]
        ELSE IF d.midi_interface /\ ~d.config
        THEN [m |-> m1, got |-> {}, ret |-> "Ok(false)"]
        ELSE LET st == register_jacks([m |-> m1, got |-> {}], addr, ep_in, ep_out, d.jacks)
             IN  [m |-> st.m, got |-> st.got,
                  ret |-> IF dev_count # Cardinality(DOMAIN st.m.device_endpoints)
                          THEN "Ok(true)" ELSE "Ok(false)"]

\* Driver::unregister: the device's endpoint list is removed, and for each
\* endpoint of it the jack map is removed and each of its handles released
midi_unregister(m, address) ==
    IF address \in DOMAIN m.device_endpoints
    THEN LET endpoints == m.device_endpoints[address]
             keys == {<<address, endpoints[i]>> : i \in 1 .. Len(endpoints)}
                        \cap DOMAIN m.ep_jack_port
         IN  [m |-> [m EXCEPT !.device_endpoints = Drop(@, address),
                              !.ep_jack_port = [k \in DOMAIN @ \ keys |-> @[k]]],
              released |-> UNION {{m.ep_jack_port[k][j] : j \in DOMAIN m.ep_jack_port[k]}
                                    : k \in keys}]
    ELSE [m |-> m, released |-> {}]

\* the jacks of a configuration
Jack(type, embedded, id) == [type |-> type, embedded |-> embedded, id |-> id]

\* the configurations registered: one port each way; two ports each way with
\* external jacks between them; five embedded IN jacks on one endpoint; two
\* IN endpoints and one OUT endpoint; a device without a MIDI interface; a
\* MIDI interface without a configuration descriptor before it
MidiDevices ==
    { [midi_interface |-> TRUE, config |-> TRUE, eps |-> <<129, 1>>,
       jacks |-> <<Jack("MSInJack", TRUE, 1), Jack("MSOutJack", TRUE, 2)>>],
      [midi_interface |-> TRUE, config |-> TRUE, eps |-> <<1, 129>>,
       jacks |-> <<Jack("MSInJack", TRUE, 1), Jack("MSInJack", FALSE, 2),
                   Jack("MSInJack", TRUE, 3), Jack("MSOutJack", TRUE, 4),
                   Jack("MSOutJack", FALSE, 5), Jack("MSOutJack", TRUE, 6)>>],
      [midi_interface |-> TRUE, config |-> TRUE, eps |-> <<129>>,
       jacks |-> <<Jack("MSInJack", TRUE, 1), Jack("MSInJack", TRUE, 2),
                   Jack("MSInJack", TRUE, 3), Jack("MSInJack", TRUE, 4),
                   Jack("MSInJack", TRUE, 5)>>],
      [midi_interface |-> TRUE, config |-> TRUE, eps |-> <<129, 130, 1>>,
       jacks |-> <<Jack("MSInJack", TRUE, 1), Jack("MSOutJack", TRUE, 2)>>],
      [midi_interface |-> FALSE, config |-> TRUE, eps |-> <<129>>,
       jacks |-> <<Jack("MSInJack", TRUE, 1)>>],
      [midi_interface |-> TRUE, config |-> FALSE, eps |-> <<129, 1>>,
       jacks |-> <<Jack("MSInJack", TRUE, 1), Jack("MSOutJack", TRUE, 2)>>] }

\* the number of ports register asks the registry for, at most
Embedded(d) == Cardinality({i \in 1 .. Len(d.jacks) : d.jacks[i].embedded})

NoMidiCall == [op |-> "new", addr |-> 0]

MidiInit ==
    /\ midi = midi_new
    /\ mlog = [op |-> "new", addr |-> 0, ret |-> "-", prev |-> NoMidiCall, live |-> {},
               got |-> [a \in MidiAddrs |-> {}],
               rel |-> [h \in 0 .. (MaxPortId - 1) |-> 0]]

\* the stack registers a device under an address no registered device has
MidiRegister ==
    \E a \in MidiAddrs \ mlog.live, d \in MidiDevices, ok \in BOOLEAN :
        LET r == midi_register(midi, a, d, ok) IN
        /\ midi.next_port_id + Embedded(d) <= MaxPortId
        /\ midi' = r.m
        /\ mlog' = [mlog EXCEPT !.op = "register", !.addr = a, !.ret = r.ret,
                                !.prev = [op |-> mlog.op, addr |-> mlog.addr],
                                !.live = @ \cup {a}, !.got[a] = r.got]
        /\ UNCHANGED notMidi

MidiUnregister ==
    \E a \in MidiAddrs :
        LET r == midi_unregister(midi, a) IN
        /\ midi' = r.m
        /\ mlog' = [mlog EXCEPT !.op = "unregister", !.addr = a, !.ret = "-",
                                !.prev = [op |-> mlog.op, addr |-> mlog.addr],
                                !.live = @ \ {a},
                                !.rel = [h \in DOMAIN @ |->
                                            IF h \in r.released THEN @[h] + 1 ELSE @[h]]]
        /\ UNCHANGED notMidi

NextMidi ==
    \/ MidiRegister
    \/ MidiUnregister

(***************************************************************************)
(* Specifications                                                          *)
(***************************************************************************)
NextPool ==
    \/ TakeNext
    \/ PoolPutBack
    \/ PoolReset

\* the pipe engine at rest, for the specifications of the other components
PipeAtRest ==
    /\ ep = [in_toggle |-> FALSE, out_toggle |-> FALSE, transfer_type |-> "Control",
             max_packet_size |-> 8]
    /\ regs = [ptoken |-> "none", dtgl |-> FALSE, pfreeze |-> TRUE, bk0rdy |-> FALSE]
    /\ desc = [byte_count |-> 0, addr |-> 0]
    /\ call = IdleCall
    /\ pnow = 0
    /\ pres = NoResult
    /\ phist = FreshHist

\* a fresh pool, with the pipe engine and the stack at rest
InitPool == PoolInit /\ PipeAtRest /\ StackInit /\ ParserAtRest /\ KbdInit /\ PureAtRest /\ MidiInit

SpecPool == InitPool /\ [][NextPool]_vars

\* a pipe engine before its first call, with the pool and the stack at rest
InitPipe == PipeEngineInit /\ PoolInit /\ StackInit /\ ParserAtRest /\ KbdInit /\ PureAtRest /\ MidiInit

SpecPipe == InitPipe /\ [][NextPipe]_vars

\* the retry wrapper under control transfers without a data stage (SETUP and
\* STATUS tokens): the loop of dispatch_retries turns for as long as the call
\* runs, and the millisecond clock advances for as long as it can
RetryStart == \E bm \in BmRequestTypes : ControlTransfer(bm, FALSE, 0)
RetryPoll == \E hw \in HwPolls : Poll(hw, 0)

NextRetry ==
    \/ RetryStart
    \/ RetryPoll
    \/ ClockAdvance

SpecRetry == InitPipe /\ [][NextRetry]_vars /\ WF_vars(RetryPoll) /\ WF_vars(ClockAdvance)

\* a stack and its controller after construction, with the pipe engine at rest
InitStack == StackInit /\ PoolInit /\ PipeAtRest /\ ParserAtRest /\ KbdInit /\ PureAtRest /\ MidiInit

SpecStack == InitStack /\ [][NextStack]_vars

\* a parser over one buffer of the catalogue, everything else at rest
InitParser == ParserInit /\ PoolInit /\ PipeAtRest /\ StackInit /\ KbdInit /\ PureAtRest /\ MidiInit

SpecParser == InitParser /\ [][NextParser]_vars

\* a keyboard driver after construction, everything else at rest
InitKbd == KbdInit /\ PoolInit /\ PipeAtRest /\ StackInit /\ ParserAtRest /\ PureAtRest /\ MidiInit

SpecKbd == InitKbd /\ [][NextKbd]_vars

\* one call of pipe_for on a zeroed pipe table, everything else at rest
InitPipeFor ==
    /\ PipeForInit /\ PoolInit /\ PipeAtRest /\ StackInit /\ ParserAtRest /\ KbdInit
    /\ MidiInit

SpecPipeFor == InitPipeFor /\ [][NextPipeFor]_vars

\* a RequestType built from a triple, everything else at rest
InitRequestType ==
    /\ RequestTypeInit /\ PoolInit /\ PipeAtRest /\ StackInit /\ ParserAtRest /\ KbdInit
    /\ MidiInit

SpecRequestType == InitRequestType /\ [][NextRequestType]_vars

\* a MIDI driver after construction, everything else at rest
InitMidi ==
    /\ MidiInit /\ PoolInit /\ PipeAtRest /\ StackInit /\ ParserAtRest /\ KbdInit
    /\ PureAtRest

SpecMidi == InitMidi /\ [][NextMidi]_vars

\* the lowest address of 1..=127 that no caller holds, NoAddr when all are held
LowestFree(h) ==
    LET free == (1 .. MAX_DEVICES) \ h
    IN  IF free = {} THEN NoAddr ELSE CHOOSE a \in free : \A b \in free : a <= b

\* C1: every address take_next returns is in 1..=127 and is not held by a caller
\* (returned earlier and not put back since), on runs where put_back is only
\* called with addresses that are held.
C1_UniqueInRange ==
    (pool_last.op = "take" /\ pool_last.ret # NoAddr /\ pool_last.legit)
        => /\ pool_last.ret \in 1 .. MAX_DEVICES
           /\ pool_last.ret \notin pool_last.held_before

\* C2: take_next returns the lowest free address of 1..=127, None exactly when
\* all 127 are held; k consecutive takes on a fresh pool return 1, ..., 127, None.
C2_LowestFree ==
    (pool_last.op = "take" /\ pool_last.legit)
        => /\ pool_last.ret = LowestFree(pool_last.held_before)
           /\ pool_last.takes \in 1 .. MAX_DEVICES => pool_last.ret = pool_last.takes
           /\ pool_last.takes = MAX_DEVICES + 1 => pool_last.ret = NoAddr

\* C20: put_back(a) for an address a that is free (take_next could still
\* hand it out: its bit is set) leaves the pool as it was, for every a.
C20_PutBackFreeIsNoop ==
    [][(pool_last'.op = "put" /\ take_next_bit(pool_last'.arg) \in pool_bits)
          => pool_bits' = pool_bits]_vars

IfAt(items) == {i \in 1 .. Len(items) : items[i].t = "if"}

\* the endpoint descriptors between position i and the next interface descriptor
EpsOf(items, i) ==
    {j \in (i + 1) .. Len(items) :
        /\ items[j].t = "ep"
        /\ \A m \in (i + 1) .. j : items[m].t # "if"}

\* a configuration as a device reports it: one configuration descriptor first,
\* whose bNumInterfaces counts the interface numbers, every interface followed
\* by the endpoints it declares, alternate settings after their interface
WellFormed(items) ==
    /\ Len(items) >= 1
    /\ items[1].t = "cfg"
    /\ \A i \in 2 .. Len(items) : items[i].t \notin {"cfg", "raw"}
    /\ \A i \in 2 .. Len(items) : items[i].t = "if" \/ \E j \in 2 .. (i - 1) : items[j].t = "if"
    /\ \A i, j \in IfAt(items) :
            (i < j /\ items[i].b[4] = 0 /\ items[j].b[4] = 0) => items[i].b[3] # items[j].b[3]
    /\ \A j \in IfAt(items) :
            items[j].b[4] # 0 => \E i \in IfAt(items) :
                                    i < j /\ items[i].b[4] = 0 /\ items[i].b[3] = items[j].b[3]
    /\ items[1].n = Cardinality({i \in IfAt(items) : items[i].b[4] = 0})
    /\ \A i \in IfAt(items) : Cardinality(EpsOf(items, i)) = items[i].n

RECURSIVE SumLen(_)
SumLen(ys) == IF ys = <<>> THEN 0 ELSE Head(ys).len + SumLen(Tail(ys))

\* the endpoints the yielded interface descriptors declare (bNumEndpoints)
RECURSIVE SumEps(_, _)
SumEps(ys, buf) ==
    IF ys = <<>> THEN 0
    ELSE (IF Head(ys).kind = "Interface" THEN buf[Head(ys).at + 5] ELSE 0)
         + SumEps(Tail(ys), buf)

Yielded(kind) == {i \in 1 .. Len(plog.yields) : plog.yields[i].kind = kind}

\* C22: iterating the parser to the end over a well-formed configuration
\* descriptor yields descriptors whose lengths sum to the length of the buffer,
\* exactly bNumInterfaces Interface descriptors not counting alternate settings,
\* and as many Endpoint descriptors as the yielded interfaces declare.
C22_WellFormedWalk ==
    (WellFormed(plog.made) /\ plog.ended = "none")
        => /\ SumLen(plog.yields) = Len(parser.buf)
           /\ Cardinality({i \in Yielded("Interface") :
                              parser.buf[plog.yields[i].at + 4] = 0}) = parser.buf[5]
           /\ Cardinality(Yielded("Endpoint")) = SumEps(plog.yields, parser.buf)

C22_Witness ==
    /\ WellFormed(plog.made)
    /\ plog.ended = "none"
    /\ Len(plog.made) = MaxDescs
    /\ Yielded("Endpoint") # {}
    /\ SumLen(plog.yields) = Len(parser.buf)


\* C23: on every buffer the iteration terminates: every yielded descriptor moves
\* the cursor strictly forward, no call of next() panics, and once next() has
\* returned None every later call returns None.
C23_IterationTerminates ==
    /\ plog.ended # "panic"
    /\ (plog.op = "next" /\ plog.last # NoDesc) => parser.pos > plog.before.pos
    /\ (plog.op = "next" /\ plog.after > 0) => plog.last = NoDesc

\* the smaller of two numbers
Min(a, b) == IF a < b THEN a ELSE b

\* C24: a call of next() at a descriptor of unrecognised type, or at one whose
\* declared length runs past the end of the buffer, yields it as an opaque
\* slice over the bytes that are present.
C24_OpaqueNotDropped ==
    LET b == plog.before
        len == b.buf[b.pos + 1]
    IN  (/\ plog.op = "next"
         /\ b.pos + 1 < Len(b.buf)
         /\ len > 0
         /\ \/ descriptor_type(b.buf[b.pos + 2]) \in
                    {"None", "DeviceQualifier", "OtherSpeed", "InterfacePower"}
            \/ b.pos + len > Len(b.buf))
            => /\ plog.last.kind = "Unknown"
               /\ plog.last.at = b.pos
               /\ plog.last.len = Min(len, Len(b.buf) - b.pos)

\* the last complete Interface descriptor yielded before the last yield, 0 if none
LastInterface ==
    LET is == {i \in 1 .. (Len(plog.yields) - 1) : plog.yields[i].kind = "Interface"}
    IN  IF is = {} THEN 0 ELSE CHOOSE i \in is : \A j \in is : j <= i

\* C25: a class-specific descriptor (ClassInterface, ClassEndpoint) is classified
\* by the class and subclass of the most recent Interface descriptor before it:
\* by the audio classifier under that subclass when the class is Audio, as
\* unknown-class otherwise.
C25_ClassifiedByLastInterface ==
    LET y == plog.last
        i == LastInterface
        buf == parser.buf
        t == descriptor_type(buf[y.at + 2])
    IN  (/\ plog.op = "next"
         /\ y.kind \in {"Audio", "UnknownClassInterface", "UnknownClassEndpoint"}
         /\ i # 0
         /\ plog.yields[i].len = 9)
            => LET cls == buf[plog.yields[i].at + 6]
                   sub == buf[plog.yields[i].at + 7]
               IN  IF cls = Audio
                   THEN /\ y.kind = "Audio"
                        /\ y.audio = audio_parse(Some(sub), t, SubSeq(buf, y.at + 1, y.at + y.len))
                   ELSE y.kind = IF t = "ClassInterface" THEN "UnknownClassInterface"
                                 ELSE "UnknownClassEndpoint"


\* C26: adding a driver or a device beyond the capacity of the stack never
\* panics (the overflow is an error the caller can see, the stack stays as it was).
C26_OverflowIsAnError ==
    ~panicked


\* C27: the occupied slots of the keyboard driver are the devices added and not
\* removed since; adding succeeds while fewer than MAX_DEVICES are registered and
\* fails only at MAX_DEVICES.
C27_SlotsTrackDevices ==
    /\ count(kbd) = Cardinality(klog.asked)
    /\ klog.op = "register" =>
            (klog.ret = "Ok" <=> klog.count_before < KBD_MAX_DEVICES)


\* C28: a turn of the retry loop that reads a STALL for the dispatched token
\* returns Stall at once.
C28_StallReturnsAtOnce ==
    phist.poll.stall => (phist.poll.returned /\ phist.poll.res = Err("Stall"))

Transient == {"Flow", "HardwareTimeout", "TransferFail"}

C30_RetryReturns ==
    \A k \in {1, 2} :       \* the SETUP and the STATUS token of the call
        (call.op # "none" /\ Len(phist.log) = k /\ call.until < MaxPipeNow)
            ~> (call.op = "none" \/ Len(phist.log) > k)

C30_Witness ==
    /\ phist.poll.returned
    /\ phist.poll.late
    /\ phist.poll.res = Err("SoftwareTimeout")
    /\ phist.last.dtgl_errs = 1


\* C31: a call that starts (pipe_for and the transfer write the pipe descriptor
\* before the first token is dispatched) finds the pipe frozen, whatever the
\* transfers before it, failed or timed out ones included.
C31_WritesWhileFrozen ==
    [][(call.op = "none" /\ call'.op # "none") => regs.pfreeze]_vars

\* C35: the STATUS token of a control transfer is dispatched with data toggle 1,
\* whatever the direction and the number of DATA packets.
C35_StatusIsData1 ==
    call.stage = "status"
        => IF call.token = "In" THEN phist.cur.in0 ELSE phist.cur.out0

C35_Witness ==
    /\ call.stage = "status"
    /\ call.token = "Out"
    /\ Len(phist.log) >= 4
    /\ phist.cur.out0

\* C36: the device list of the stack holds at most one device, and a device that
\* has an address has address 1.
C36_OneRootDevice ==
    /\ Len(devices) <= 1
    /\ \A i \in 1 .. Len(devices) : devices[i].address # 0 => devices[i].address = 1

C36_Witness ==
    /\ reset_at # <<>>
    /\ Len(devices) = 1
    /\ devices[1].address = 1


\* C34: when the addressing step of a device fails, on GET_DESCRIPTOR or on
\* SET_ADDRESS, the pool after the step is the pool before it.
C34_FailedAddressingKeepsPool ==
    \A i \in Upkept :
        ( /\ slog.upkept[i].state.s = "SetAddress"
          /\ slog.upkept[i].error = NoError
          /\ slog.steps[i].res # NoError )
           => pool_bits = slog.pool

\* the smallest packet-size class that holds a packet of mps bytes
CeilingClass(mps) ==
    CHOOSE c \in SizeClasses : c >= mps /\ \A b \in SizeClasses : b >= mps => c <= b

\* C32: for every max_packet_size in 1..=1024, the packet-size class pipe_for
\* programs is the smallest power of two in {8, .., 1024} that is at least
\* max_packet_size.
C32_CeilingSizeClass ==
    (pfor.done /\ pfor.e.mps \in 1 .. 1024) => pfor.size = CeilingClass(pfor.e.mps)

\* C40: for every endpoint whose device address is in 0..=127, the
\* device-address field pipe_for programs equals the endpoint's device address
\* and the endpoint-number field equals bits 0..3 of its endpoint address; pipe
\* 0 is chosen exactly when the endpoint number is 0, pipe 1 otherwise.
C40_AddressAndNumberProgrammed ==
    (pfor.done /\ pfor.e.dev_addr \in 0 .. 127) =>
        /\ pdaddr(pfor.ctrl_pipe) = pfor.e.dev_addr
        /\ pepnum(pfor.ctrl_pipe) = pfor.e.ep_addr % 16
        /\ pfor.pipe = (IF pfor.e.ep_addr % 16 = 0 THEN 0 ELSE 1)

\* C39: for every RequestType built from (direction, kind, recipient), each
\* setter makes its getter return the value just set and leaves the other two
\* fields as they were.
C39_SettersSetTheirField ==
    /\ rtype.op = "set_direction" =>
          /\ RequestType_direction(rtype.bits) = Some(rtype.arg)
          /\ RequestType_kind(rtype.bits) = RequestType_kind(rtype.before)
          /\ RequestType_recipient(rtype.bits) = RequestType_recipient(rtype.before)
    /\ rtype.op = "set_kind" =>
          /\ RequestType_kind(rtype.bits) = Some(rtype.arg)
          /\ RequestType_direction(rtype.bits) = RequestType_direction(rtype.before)
          /\ RequestType_recipient(rtype.bits) = RequestType_recipient(rtype.before)
    /\ rtype.op = "set_recipient" =>
          /\ RequestType_recipient(rtype.bits) = Some(rtype.arg)
          /\ RequestType_direction(rtype.bits) = RequestType_direction(rtype.before)
          /\ RequestType_kind(rtype.bits) = RequestType_kind(rtype.before)

\* C38: after register and then unregister of its address, every port handle
\* that register acquired has been released exactly once, and the driver
\* keeps no endpoint entry and no jack-to-port entry of the address.
C38_UnregisterReleasesAll ==
    ( /\ mlog.op = "unregister"
      /\ mlog.prev.op = "register"
      /\ mlog.prev.addr = mlog.addr )
        => /\ \A h \in mlog.got[mlog.addr] : mlog.rel[h] = 1
           /\ mlog.addr \notin DOMAIN midi.device_endpoints
           /\ \A k \in DOMAIN midi.ep_jack_port : k[1] # mlog.addr

\* C33: for every byte buffer, next() reads no byte at an index at or past
\* buf.len() (it never panics on an index out of range), and every typed
\* descriptor view it yields covers only bytes inside the buffer.
C33_ReadsInsideBuffer ==
    /\ plog.ended # "panic"
    /\ (plog.op = "next" /\ plog.last.kind \in TypedKinds)
          => plog.last.at + size_of(plog.last.kind) <= Len(parser.buf)

\* the classification of a yielded descriptor
Classification(y) == [kind |-> y.kind, audio |-> y.audio]
Classifications(ys) == [i \in 1 .. Len(ys) |-> Classification(ys[i])]

\* the iterations of a parser from state p to their end: the classifications
\* yielded, and how the iteration ended
RECURSIVE Runs(_, _)
Runs(p, acc) ==
    UNION { LET r == parser_next(p, ub) IN
            IF r.panic THEN {[kinds |-> acc, ended |-> "panic"]}
            ELSE IF r.ret = NoDesc THEN {[kinds |-> acc, ended |-> "none"]}
            ELSE Runs(r.p, Append(acc, Classification(r.ret)))
          : ub \in UbFor(p) }

\* C37: after rewind(), iterating the parser yields exactly the sequence of
\* descriptor classifications that a fresh parser over the same buffer yields,
\* whatever was iterated before the rewind.
C37_RewindIsFresh ==
    (plog.rewound /\ plog.ended # "no")
        => [kinds |-> Classifications(plog.yields), ended |-> plog.ended]
              \in Runs(parser_new(parser.buf), <<>>)

====
